---- MODULE Spec2Model ----
(***************************************************************************)
(* Semantic analysis for declarations (lib/Sema/TypeCheckDecl.cpp): the    *)
(* DeclChecker visitor, its helpers and TypeChecker::typeCheckDecl.        *)
(***************************************************************************)
EXTENDS Integers, Sequences, FiniteSets, TLC

VARIABLES
    tuKind,     \* TC.TU.Kind: "Library" or "Main"
    tuDecls,    \* TU->Decls: the module-scope declarations, in source order
    imports,    \* TU->getImportedModules(), in import order
    parsed,     \* the declarations as the parser left them (the input, never written)
    ast,        \* the declarations: decl id -> its fields and mutable slots
    diags,      \* what TC.diagnose was called with, in order
    trace,      \* the calls made on the collaborators and the visits, in order
    nextArch,   \* the next fresh archetype of the type context
    crashed,    \* the process was aborted (unreachable trap, bad dereference)
    pass,       \* where the driver is
    idx         \* the driver's position in the pass

vars == <<tuKind, tuDecls, imports, parsed, ast, diags, trace, nextArch, crashed, pass, idx>>

----------------------------------------------------------------------------
(* Bounds of the model *)

\* how many distinct InfixData values (associativity, precedence) besides the default
MaxPrec == 2
\* how many imported modules a translation unit has
MaxImports == 2
\* how many declarations a module-level lookup finds at most
MaxFound == 2
\* the most generic parameters and requirements of a generic parameter list
MaxParams == 2
MaxReqs == 2
\* the most visits of one declaration in one pass
MaxVisits == 2

----------------------------------------------------------------------------
(* Types *)

Unset == [k |-> "Unset"]
ErrorType == [k |-> "Error"]
IntType == [k |-> "Builtin"]
TupleTypeElt(n, t, i) == [name |-> n, ty |-> t, hasInit |-> i]
TupleType(elts) == [k |-> "Tuple", elts |-> elts]
EmptyTuple == TupleType(<< >>)
FunctionType(i, o) == [k |-> "Func", in |-> i, out |-> o]
PolymorphicFunctionType(i, o, g) == [k |-> "PolyFunc", in |-> i, out |-> o, gp |-> g]
LValueType(t) == [k |-> "LValue", of |-> t]
NominalType(kind, d) == [k |-> kind, d |-> d]
ExistentialType(ps) == [k |-> "Existential", protos |-> ps]
ArchetypeType(id, n, c, i) == [k |-> "Archetype", id |-> id, name |-> n, conformsTo |-> c, index |-> i]

isNull(t) == t.k = "Unset"
isErrorType(t) == t.k = "Error"
isAnyFunctionType(t) == t.k \in {"Func", "PolyFunc"}
isTupleType(t) == t.k = "Tuple"
isLValueType(t) == t.k = "LValue"
isExistentialType(t) == t.k = "Existential"

----------------------------------------------------------------------------
(* Declarations *)

NoAttrs == [Infix |-> 0, Postfix |-> FALSE, Assignment |-> FALSE,
            Conversion |-> FALSE, Byref |-> FALSE, AutoClosure |-> FALSE]

AllAttrs == [Infix : 0..MaxPrec, Postfix : BOOLEAN, Assignment : BOOLEAN,
             Conversion : BOOLEAN, Byref : BOOLEAN, AutoClosure : BOOLEAN]

isInfix(a) == a.Infix # 0

NoGenerics == [present |-> FALSE, params |-> << >>, reqs |-> << >>]
NoPattern == [pk |-> "Any"]

\* ctx: 0 is the translation unit (module context), -1 a function body, n > 0 the decl n
BlankDecl == [kind |-> "Import", ctx |-> 0, name |-> "", isInstanceMember |-> FALSE,
              isProperty |-> FALSE, type |-> Unset, attrs |-> NoAttrs,
              members |-> << >>, inherited |-> << >>, generics |-> NoGenerics,
              underlying |-> [expr |-> "Int", ty |-> Unset],
              argLoc |-> [expr |-> "None", ty |-> Unset],
              pattern |-> NoPattern, patTy |-> Unset, hasInit |-> FALSE,
              initChecked |-> FALSE, initOK |-> TRUE, initTy |-> IntType,
              bodyTy |-> Unset, thisTy |-> Unset]

ValueDeclKinds == {"Var", "Func", "Constructor", "Destructor", "Subscript",
                   "OneOfElement", "TypeAlias", "OneOf", "Struct", "Class", "Protocol"}

OperatorNames == {"+", "-", "&"}
isOperator(D) == D.name \in OperatorNames
isModuleContext(D) == D.ctx = 0

S0 == [ast |-> ast, diags |-> diags, trace |-> trace, nextArch |-> nextArch,
       crashed |-> crashed]

\* TC.diagnose: a diagnostic of this kind at the declaration d; the entry records
\* whether the type of d was ErrorType when it was emitted
diagnose(s, d, kind) ==
    [s EXCEPT !.diags = Append(@, [kind |-> kind, decl |-> d,
                                   poisoned |-> isErrorType(s.ast[d].type)])]
setAttr(s, d, a, v) == [s EXCEPT !.ast[d].attrs[a] = v]
setType(s, d, t) == [s EXCEPT !.ast[d].type = t]

----------------------------------------------------------------------------
(* The type reference validator, TypeChecker::validateType *)

TypeLoc(e) == [expr |-> e, ty |-> Unset]

\* the type a syntactic type expression names; Unset when it names none. A
\* forward reference ("Fwd") names an unbound nominal in the first pass only.
Resolve(e, isFirstPass) ==
    CASE e = "P1" -> ExistentialType({"P1"})
      [] e = "P2" -> ExistentialType({"P2"})
      [] e = "A" -> NominalType("Struct", 0)
      [] e = "Int" -> IntType
      [] e = "Ref" -> LValueType(IntType)
      [] e = "T1" -> NominalType("GenericParam", 1)
      [] e = "T2" -> NominalType("GenericParam", 2)
      [] e = "T3" -> NominalType("GenericParam", 3)
      [] e = "Fwd" -> IF isFirstPass THEN NominalType("UnboundGeneric", 0) ELSE Unset
      [] OTHER -> Unset

\* validateType(loc, isFirstPass): the failure flag and the loc afterwards. A loc
\* whose slot is set is left alone; a failure marks the loc invalid.
validateType(loc, isFirstPass) ==
    IF ~isNull(loc.ty) THEN [failed |-> FALSE, loc |-> loc]
    ELSE IF isNull(Resolve(loc.expr, isFirstPass))
    THEN [failed |-> TRUE, loc |-> [loc EXCEPT !.ty = ErrorType]]
    ELSE [failed |-> FALSE, loc |-> [loc EXCEPT !.ty = Resolve(loc.expr, isFirstPass)]]

log(s, op, d, i) == [s EXCEPT !.trace = Append(@, [op |-> op, d |-> d, i |-> i])]

----------------------------------------------------------------------------
(* DeclChecker::checkInherited, lines 47-62 *)

\* one iteration of the loop: the state and the i-th TypeLoc afterwards
checkInheritedOne(s, d, loc, isFirstPass) ==
    LET validated(v, s1) ==
            IF v.failed
            THEN [s |-> s1, loc |-> [v.loc EXCEPT !.ty = ErrorType]]
            ELSE IF ~isExistentialType(v.loc.ty) /\ ~isErrorType(v.loc.ty)
            THEN [s |-> diagnose(s1, d, "nonprotocol_inherit"), loc |-> v.loc]
            ELSE [s |-> s1, loc |-> v.loc]
    IN  validated(validateType(loc, isFirstPass), log(s, "validateInherited", d, 0))

\* the loop from the i-th TypeLoc on: the state and the list afterwards
RECURSIVE checkInherited(_, _, _, _, _)
checkInherited(s, d, Inherited, i, isFirstPass) ==
    IF i > Len(Inherited) THEN [s |-> s, list |-> Inherited]
    ELSE LET rest(r) ==
                 checkInherited(r.s, d, [Inherited EXCEPT ![i] = r.loc], i + 1, isFirstPass)
         IN  rest(checkInheritedOne(s, d, Inherited[i], isFirstPass))

----------------------------------------------------------------------------
(* The archetype builder, ArchetypeBuilder *)

NewBuilder == [params |-> << >>, reqs |-> << >>]

\* Builder.addGenericParameter(TypeParam, Index)
addGenericParameter(b, param, index) ==
    [b EXCEPT !.params = Append(@, [param |-> param, index |-> index])]

\* Builder.addRequirement(Req)
addRequirement(b, req) == [b EXCEPT !.reqs = Append(@, req)]

\* the protocols of a list of inherited types
RECURSIVE protocolsOf(_)
protocolsOf(Inherited) ==
    IF Inherited = << >> THEN {}
    ELSE (IF isExistentialType(Head(Inherited).ty) THEN Head(Inherited).ty.protos ELSE {})
         \cup protocolsOf(Tail(Inherited))

\* the generic parameter a requirement's subject names, 0 when it names none
subjectParam(req) ==
    CASE req.subject.expr = "T1" -> 1
      [] req.subject.expr = "T2" -> 2
      [] req.subject.expr = "T3" -> 3
      [] OTHER -> 0

\* the protocols the builder holds for the parameter at position i: those the
\* parameter inherits and those of the Conformance requirements on it
builderProtocols(b, i) ==
    protocolsOf(b.params[i].param.inherited)
    \cup UNION { IF b.reqs[j].kind = "Conformance" /\ subjectParam(b.reqs[j]) = i
                    /\ isExistentialType(b.reqs[j].protocol.ty)
                 THEN b.reqs[j].protocol.ty.protos ELSE {} : j \in 1..Len(b.reqs) }

\* Builder.assignArchetypes(): a fresh archetype for every parameter
assignArchetypes(b, first) ==
    [i \in 1..Len(b.params) |->
        ArchetypeType(first + i - 1, b.params[i].param.name, builderProtocols(b, i),
                      b.params[i].index)]

----------------------------------------------------------------------------
(* DeclChecker::checkGenericParams, lines 75-161 *)

\* a local state of checkGenericParams: the checker state, the list and the builder
GP(s, g, b) == [s |-> s, g |-> g, b |-> b]

\* lines 82-90, from the i-th parameter on
RECURSIVE intakeParams(_, _, _, _)
intakeParams(x, d, i, isFirstPass) ==
    IF i > Len(x.g.params) THEN x
    ELSE LET add(s1, g1) ==
                 intakeParams(GP(log(s1, "addGenericParameter", d, i - 1), g1,
                                 addGenericParameter(x.b, g1.params[i], i - 1)),
                              d, i + 1, isFirstPass)
             checked(r) == add(r.s, [x.g EXCEPT !.params[i].inherited = r.list])
         IN  checked(checkInherited(x.s, d, x.g.params[i].inherited, 1, isFirstPass))

\* the first scan with a Conformance requirement that survives skipped like a
\* poisoned one
firstScanOne_SkipsSurvivor(x, d, j, isFirstPass) ==
    LET Req == x.g.reqs[j]
        conformance(v, s1) ==
            IF v.failed
            THEN GP(s1, [x.g EXCEPT !.reqs[j].protocol.ty = ErrorType], x.b)
            ELSE IF ~isExistentialType(v.loc.ty)
            THEN GP(diagnose(s1, d, "requires_conformance_nonprotocol"),
                    [x.g EXCEPT !.reqs[j].protocol.ty = ErrorType], x.b)
            ELSE GP(s1, [x.g EXCEPT !.reqs[j].protocol = v.loc], x.b)
    IN  IF Req.kind = "Conformance"
        THEN conformance(validateType(Req.protocol, isFirstPass),
                         log(x.s, "validateProtocol", d, j))
        ELSE GP(log(x.s, "addRequirement", d, j), x.g, addRequirement(x.b, Req))

\* lines 95-120, one requirement
firstScanOne(x, d, j, isFirstPass) ==
    LET Req == x.g.reqs[j]
        conformance(v, s1) ==
            IF v.failed
            THEN GP(s1, [x.g EXCEPT !.reqs[j].protocol.ty = ErrorType], x.b)
            ELSE IF ~isExistentialType(v.loc.ty)
            THEN GP(diagnose(s1, d, "requires_conformance_nonprotocol"),
                    [x.g EXCEPT !.reqs[j].protocol.ty = ErrorType], x.b)
            ELSE GP(log(s1, "addRequirement", d, j),
                    [x.g EXCEPT !.reqs[j].protocol = v.loc],
                    addRequirement(x.b, [Req EXCEPT !.protocol = v.loc]))
    IN  IF Req.kind = "Conformance"
        THEN conformance(validateType(Req.protocol, isFirstPass),
                         log(x.s, "validateProtocol", d, j))
        ELSE GP(log(x.s, "addRequirement", d, j), x.g, addRequirement(x.b, Req))

RECURSIVE firstScan(_, _, _, _)
firstScan(x, d, j, isFirstPass) ==
    IF j > Len(x.g.reqs) THEN x
    ELSE firstScan(firstScanOne(x, d, j, isFirstPass), d, j + 1, isFirstPass)

\* lines 122-127
wireArchetypes(x, d) ==
    LET A == assignArchetypes(x.b, x.s.nextArch)
    IN  GP([log(x.s, "assignArchetypes", d, 0) EXCEPT !.nextArch = @ + Len(x.b.params)],
           [x.g EXCEPT !.params = [i \in 1..Len(x.g.params) |->
                                    [x.g.params[i] EXCEPT !.underlying = A[i]]]],
           x.b)

\* lines 130-160, one requirement
secondScanOne(x, d, j, isFirstPass) ==
    LET Req == x.g.reqs[j]
        conformance(vs) ==
            IF vs.failed
            THEN GP(log(x.s, "validateSubject", d, j),
                    [x.g EXCEPT !.reqs[j].subject.ty = ErrorType], x.b)
            ELSE GP(log(log(x.s, "validateSubject", d, j), "addRequirement", d, j),
                    [x.g EXCEPT !.reqs[j].subject = vs.loc],
                    addRequirement(x.b, [Req EXCEPT !.subject = vs.loc]))
        sameType(v1, v2) ==
            IF v1.failed
            THEN GP(log(x.s, "validateFirst", d, j),
                    [x.g EXCEPT !.reqs[j].first.ty = ErrorType], x.b)
            ELSE IF v2.failed
            THEN GP(log(log(x.s, "validateFirst", d, j), "validateSecond", d, j),
                    [x.g EXCEPT !.reqs[j].first = v1.loc,
                                !.reqs[j].second.ty = ErrorType], x.b)
            ELSE GP(log(log(log(x.s, "validateFirst", d, j), "validateSecond", d, j),
                        "addRequirement", d, j),
                    [x.g EXCEPT !.reqs[j].first = v1.loc, !.reqs[j].second = v2.loc],
                    addRequirement(x.b, [Req EXCEPT !.first = v1.loc, !.second = v2.loc]))
    IN  IF Req.kind = "Conformance"
        THEN conformance(validateType(Req.subject, isFirstPass))
        ELSE sameType(validateType(Req.first, isFirstPass),
                      validateType(Req.second, isFirstPass))

RECURSIVE secondScan(_, _, _, _)
secondScan(x, d, j, isFirstPass) ==
    IF j > Len(x.g.reqs) THEN x
    ELSE secondScan(secondScanOne(x, d, j, isFirstPass), d, j + 1, isFirstPass)

\* checkGenericParams with the archetypes assigned before the first scan
checkGenericParams_WiresFirst(s, d, isFirstPass) ==
    IF ~s.ast[d].generics.present THEN s
    ELSE LET x1 == intakeParams(GP(s, s.ast[d].generics, NewBuilder), d, 1, isFirstPass)
             x2 == wireArchetypes(x1, d)
             x3 == firstScan(x2, d, 1, isFirstPass)
             store(x4) == [x4.s EXCEPT !.ast[d].generics = x4.g]
         IN  store(secondScan(x3, d, 1, isFirstPass))

\* checkGenericParams(D->getGenericParams())
checkGenericParams(s, d, isFirstPass) ==
    IF ~s.ast[d].generics.present THEN s
    ELSE LET x1 == intakeParams(GP(s, s.ast[d].generics, NewBuilder), d, 1, isFirstPass)
             x2 == firstScan(x1, d, 1, isFirstPass)
             x3 == wireArchetypes(x2, d)
             store(x4) == [x4.s EXCEPT !.ast[d].generics = x4.g]
         IN  store(secondScan(x3, d, 1, isFirstPass))

----------------------------------------------------------------------------
(* DeclChecker::validateAttributes *)

\* NumArguments (lines 527-531)
NumArguments(Ty) ==
    IF isAnyFunctionType(Ty) /\ isTupleType(Ty.in) THEN Len(Ty.in.elts) ELSE -1

\* the Assignment rule (lines 595-618)
validateAssignment(s, d, N) ==
    LET VD == s.ast[d]
        FT == VD.type
        ParamType == IF isTupleType(FT.in) THEN FT.in.elts[1].ty ELSE FT.in
    IN  IF ~VD.attrs.Assignment THEN s
        ELSE IF VD.kind # "Func" \/ ~isOperator(VD)
        THEN setAttr(diagnose(s, d, "invalid_decl_attribute_assignment"), d, "Assignment", FALSE)
        ELSE IF N < 1
        THEN setAttr(diagnose(s, d, "assignment_without_byref"), d, "Assignment", FALSE)
        ELSE IF ~isLValueType(ParamType)
        THEN setAttr(diagnose(s, d, "assignment_without_byref"), d, "Assignment", FALSE)
        ELSE IF FT.out # EmptyTuple
        THEN diagnose(s, d, "assignment_nonvoid")
        ELSE s

\* AcceptsEmptyParamList (lines 632-644)
AcceptsEmptyParamList(InputTy) ==
    isTupleType(InputTy) /\ \A i \in 1..Len(InputTy.elts) : InputTy.elts[i].hasInit

\* the Conversion rule (lines 620-652)
validateConversion(s, d) ==
    LET VD == s.ast[d]
    IN  IF ~VD.attrs.Conversion THEN s
        ELSE IF VD.kind # "Func" \/ ~VD.isInstanceMember
        THEN setAttr(diagnose(s, d, "conversion_not_instance_method"), d, "Conversion", FALSE)
        ELSE IF ~isErrorType(VD.type)
        THEN IF ~AcceptsEmptyParamList(VD.type.out.in)
             THEN setAttr(diagnose(s, d, "conversion_params"), d, "Conversion", FALSE)
             ELSE s
        ELSE s

\* the scan of the translation unit's declarations (lines 663-672): the Infix of
\* the first same-name declaration that carries one, 0 when there is none
RECURSIVE lookInTranslationUnit(_, _, _)
lookInTranslationUnit(s, name, i) ==
    IF i > Len(tuDecls) THEN 0
    ELSE LET Existing == s.ast[tuDecls[i]]
         IN  IF Existing.kind \in ValueDeclKinds /\ Existing.name = name
                /\ isInfix(Existing.attrs)
             THEN Existing.attrs.Infix
             ELSE lookInTranslationUnit(s, name, i + 1)

\* Module::lookupValue: the declarations of the module with this name
RECURSIVE lookupValue(_, _)
lookupValue(decls, name) ==
    IF decls = << >> THEN << >>
    ELSE (IF Head(decls).name = name THEN << Head(decls) >> ELSE << >>)
         \o lookupValue(Tail(decls), name)

\* the loop over Found (lines 681-690): cur is VD's Infix on entry
RECURSIVE lookInFound(_, _, _, _)
lookInFound(Found, name, j, cur) ==
    IF j > Len(Found) THEN cur
    ELSE IF Found[j].name = name /\ Found[j].Infix # 0
    THEN Found[j].Infix
    ELSE IF cur # 0 THEN cur
    ELSE lookInFound(Found, name, j + 1, cur)

\* a scan of the imported modules that finds nothing
lookInImportedModules_NoScan(name, m, cur) == cur

\* the loop over the imported modules (lines 676-692): nothing leaves this loop
\* early, the test of line 688 sits inside the loop over Found
RECURSIVE lookInImportedModules(_, _, _)
lookInImportedModules(name, m, cur) ==
    IF m > Len(imports) THEN cur
    ELSE IF imports[m].loaded
    THEN lookInImportedModules(name, m + 1,
             lookInFound(lookupValue(imports[m].decls, name), name, 1, cur))
    ELSE lookInImportedModules(name, m + 1, cur)

\* the inheritance of Infix by a binary operator (lines 654-698)
inheritInfix(s, d, N) ==
    LET VD == s.ast[d]
    IN  IF isOperator(VD) /\ ~isInfix(VD.attrs) /\ N # 1
        THEN LET inherit(found) ==
                     IF found = 0
                     THEN diagnose(setAttr(s, d, "Infix", found), d, "binops_infix_left")
                     ELSE setAttr(s, d, "Infix", found)
                 lookup(fromTU) ==
                     IF fromTU # 0 THEN fromTU ELSE lookInImportedModules(VD.name, 1, 0)
             IN  inherit(IF isModuleContext(VD)
                         THEN lookup(lookInTranslationUnit(s, VD.name, 1))
                         ELSE 0)
        ELSE s

\* the two rules with the second made an else-branch of the first
validateByrefAutoClosure_ElseIf(s, d) ==
    IF s.ast[d].attrs.Byref
    THEN setAttr(diagnose(s, d, "invalid_decl_attribute_byref"), d, "Byref", FALSE)
    ELSE IF s.ast[d].attrs.AutoClosure
    THEN setAttr(diagnose(s, d, "invalid_decl_attribute_auto_closure"),
                 d, "AutoClosure", FALSE)
    ELSE s

\* the two rules diagnosing and leaving the flag set
validateByrefAutoClosure_DiagnoseOnly(s, d) ==
    LET autoClosure(s1) ==
            IF s1.ast[d].attrs.AutoClosure
            THEN diagnose(s1, d, "invalid_decl_attribute_auto_closure")
            ELSE s1
    IN  autoClosure(IF s.ast[d].attrs.Byref
                    THEN diagnose(s, d, "invalid_decl_attribute_byref")
                    ELSE s)

\* the Byref and AutoClosure rules (lines 700-708)
validateByrefAutoClosure(s, d) ==
    LET autoClosure(s1) ==
            IF s1.ast[d].attrs.AutoClosure
            THEN setAttr(diagnose(s1, d, "invalid_decl_attribute_auto_closure"),
                         d, "AutoClosure", FALSE)
            ELSE s1
    IN  autoClosure(IF s.ast[d].attrs.Byref
                    THEN setAttr(diagnose(s, d, "invalid_decl_attribute_byref"),
                                 d, "Byref", FALSE)
                    ELSE s)

\* validateAttributes with the rule for unary & diagnosing and falling through
validateAttributes_AddressOfFallsThrough(s, d) ==
    LET VD == s.ast[d]
        rest(s1, N) ==
            IF isInfix(VD.attrs) /\ ~isOperator(VD)
            THEN setAttr(diagnose(s1, d, "infix_not_an_operator"), d, "Infix", 0)
            ELSE IF isInfix(VD.attrs) /\ N # 2
            THEN setAttr(diagnose(s1, d, "invalid_infix_left_input"), d, "Infix", 0)
            ELSE IF VD.attrs.Postfix /\ ~isOperator(VD)
            THEN setAttr(diagnose(s1, d, "postfix_not_an_operator"), d, "Postfix", FALSE)
            ELSE IF VD.attrs.Postfix /\ N # 1
            THEN setAttr(diagnose(s1, d, "invalid_postfix_input"), d, "Postfix", FALSE)
            ELSE validateByrefAutoClosure(
                     inheritInfix(validateConversion(validateAssignment(s1, d, N), d), d, N), d)
        rules(N) ==
            IF isOperator(VD) /\ VD.kind # "Func"
            THEN diagnose(s, d, "operator_not_func")
            ELSE IF isOperator(VD) /\ (N = 0 \/ N > 2)
            THEN setAttr(diagnose(s, d, "invalid_arg_count_for_operator"), d, "Infix", 0)
            ELSE IF isOperator(VD) /\ N = 1 /\ VD.name = "&"
            THEN rest(diagnose(s, d, "custom_operator_addressof"), N)
            ELSE rest(s, N)
    IN  rules(NumArguments(VD.type))

\* lines 523-709
validateAttributes(s, d) ==
    LET VD == s.ast[d]
        rules(N) ==
            IF isOperator(VD) /\ VD.kind # "Func"
            THEN diagnose(s, d, "operator_not_func")
            ELSE IF isOperator(VD) /\ (N = 0 \/ N > 2)
            THEN setAttr(diagnose(s, d, "invalid_arg_count_for_operator"), d, "Infix", 0)
            ELSE IF isOperator(VD) /\ N = 1 /\ VD.name = "&"
            THEN diagnose(s, d, "custom_operator_addressof")
            ELSE IF isInfix(VD.attrs) /\ ~isOperator(VD)
            THEN setAttr(diagnose(s, d, "infix_not_an_operator"), d, "Infix", 0)
            ELSE IF isInfix(VD.attrs) /\ N # 2
            THEN setAttr(diagnose(s, d, "invalid_infix_left_input"), d, "Infix", 0)
            ELSE IF VD.attrs.Postfix /\ ~isOperator(VD)
            THEN setAttr(diagnose(s, d, "postfix_not_an_operator"), d, "Postfix", FALSE)
            ELSE IF VD.attrs.Postfix /\ N # 1
            THEN setAttr(diagnose(s, d, "invalid_postfix_input"), d, "Postfix", FALSE)
            ELSE validateByrefAutoClosure(
                     inheritInfix(validateConversion(validateAssignment(s, d, N), d), d, N), d)
    IN  rules(NumArguments(VD.type))

----------------------------------------------------------------------------
(* The pattern and expression checkers the visitor calls *)

Named(v) == [pk |-> "Named", var |-> v]
Typed(sub, e) == [pk |-> "Typed", sub |-> sub, ann |-> e]
Paren(sub) == [pk |-> "Paren", sub |-> sub]
TuplePattern(fs) == [pk |-> "Tuple", fields |-> fs]
AnyPattern == [pk |-> "Any"]

\* Type::isMaterializable: no l-value, no tuple holding one
isMaterializable(t) ==
    /\ ~isLValueType(t)
    /\ isTupleType(t) => \A i \in 1..Len(t.elts) : ~isLValueType(t.elts[i].ty)

\* the type a pattern has from its own annotations, Unset when it has none
RECURSIVE patternType(_, _)
patternType(P, isFirstPass) ==
    CASE P.pk = "Typed" -> Resolve(P.ann, isFirstPass)
      [] P.pk = "Paren" -> patternType(P.sub, isFirstPass)
      [] P.pk = "Tuple" ->
            IF \A i \in 1..Len(P.fields) : ~isNull(patternType(P.fields[i], isFirstPass))
            THEN TupleType([i \in 1..Len(P.fields) |->
                               TupleTypeElt("", patternType(P.fields[i], isFirstPass), FALSE)])
            ELSE Unset
      [] OTHER -> Unset

\* whether a pattern can take the type t
RECURSIVE patternFits(_, _)
patternFits(P, t) ==
    CASE P.pk \in {"Typed", "Paren"} -> patternFits(P.sub, t)
      [] P.pk = "Tuple" ->
            /\ isTupleType(t) /\ Len(t.elts) = Len(P.fields)
            /\ \A i \in 1..Len(P.fields) : patternFits(P.fields[i], t.elts[i].ty)
      [] OTHER -> TRUE

\* the variables a pattern binds get their types from the pattern's type
RECURSIVE bindVars(_, _, _)
bindVars(A, P, t) ==
    CASE P.pk = "Named" -> [A EXCEPT ![P.var].type = t]
      [] P.pk \in {"Typed", "Paren"} -> bindVars(A, P.sub, t)
      [] P.pk = "Tuple" ->
            IF P.fields = << >> THEN A
            ELSE bindVars(bindVars(A, P.fields[1], t.elts[1].ty),
                          TuplePattern(Tail(P.fields)), TupleType(Tail(t.elts)))
      [] OTHER -> A

\* TC.typeCheckPattern(P, isFirstPass) on the pattern of decl d: the failure flag
\* and the state afterwards
typeCheckPattern(s, d, isFirstPass) ==
    LET P == s.ast[d].pattern
        typed(t, s1) ==
            IF isNull(t) \/ ~patternFits(P, t)
            THEN [failed |-> TRUE, s |-> s1]
            ELSE [failed |-> FALSE,
                  s |-> [s1 EXCEPT !.ast = [bindVars(@, P, t) EXCEPT ![d].patTy = t]]]
    IN  typed(patternType(P, isFirstPass), log(s, "typeCheckPattern", d, 0))

\* TC.coerceToType(P, Ty, isFirstPass) on the pattern of decl d
coerceToType(s, d, t, isFirstPass) ==
    LET P == s.ast[d].pattern
        s1 == log(s, "coerceToType", d, 0)
    IN  IF ~patternFits(P, t)
        THEN [failed |-> TRUE, s |-> s1]
        ELSE [failed |-> FALSE,
              s |-> [s1 EXCEPT !.ast = [bindVars(@, P, t) EXCEPT ![d].patTy = t]]]

\* TC.typeCheckExpression(Init, DestTy) on the initializer of decl d
typeCheckExpression(s, d) ==
    [failed |-> ~s.ast[d].initOK, s |-> log(s, "typeCheckExpression", d, 0)]

\* TC.convertToMaterializable(Init): the type of the converted initializer
convertToMaterializable(t) == IF isLValueType(t) THEN t.of ELSE t

----------------------------------------------------------------------------
(* DeclChecker::visitBoundVars and visitPatternBindingDecl *)

\* what a read through a type slot that was never set can do in a build
UBOutcomes == {"crash", "mat", "nonmat"}

crash(s) == [s EXCEPT !.crashed = TRUE]

\* lines 184-195: ub is what the read of an unset type of v does
visitNamed(s, v, ub) ==
    LET VD == s.ast[v]
        s0 == log(s, "visitBoundVars", v, 0)
        bad == IF isNull(VD.type) THEN ub = "nonmat" ELSE ~isMaterializable(VD.type)
        s1 == IF bad
              THEN setType(diagnose(s0, v, "var_type_not_materializable"), v, ErrorType)
              ELSE s0
    IN  IF isNull(VD.type) /\ ub = "crash" THEN crash(s0)
        ELSE validateAttributes(log(s1, "validateAttributes", v, 0), v)

\* lines 171-202
RECURSIVE visitBoundVars(_, _, _)
visitBoundVars(s, P, ub) ==
    IF s.crashed THEN s
    ELSE CASE P.pk = "Tuple" ->
                IF P.fields = << >> THEN s
                ELSE visitBoundVars(visitBoundVars(s, P.fields[1], ub),
                                    TuplePattern(Tail(P.fields)), ub)
           [] P.pk \in {"Paren", "Typed"} -> visitBoundVars(s, P.sub, ub)
           [] P.pk = "Named" -> visitNamed(s, P.var, ub)
           [] OTHER -> s

\* checkInitAgainstPattern with the initializer replaced whatever the check says
checkInitAgainstPattern_AlwaysReplaces(s, d) ==
    LET PBD == s.ast[d]
        r == typeCheckExpression(s, d)
    IN  IF PBD.hasInit /\ ~isNull(PBD.patTy)
        THEN IF r.failed
             THEN [diagnose(r.s, d, "while_converting_var_init") EXCEPT
                      !.ast[d].initChecked = TRUE]
             ELSE [r.s EXCEPT !.ast[d].initChecked = TRUE]
        ELSE s

\* lines 207-220: the second pass of a binding that is not delayed
checkInitAgainstPattern(s, d) ==
    LET PBD == s.ast[d]
        r == typeCheckExpression(s, d)
    IN  IF PBD.hasInit /\ ~isNull(PBD.patTy)
        THEN IF r.failed THEN diagnose(r.s, d, "while_converting_var_init")
             ELSE [r.s EXCEPT !.ast[d].initChecked = TRUE]
        ELSE s

\* lines 221-244: the pattern and the initializer together; done is TRUE when the
\* handler returns before visitBoundVars
checkPatternWithInit(s, d) ==
    LET PBD == s.ast[d]
        typed == PBD.pattern.pk = "Typed"
        coerced(rc) == [done |-> rc.failed, s |-> rc.s]
        converted(sB, DestTy, initTy) ==
            IF isNull(DestTy) THEN coerced(coerceToType(sB, d, initTy, FALSE))
            ELSE [done |-> FALSE, s |-> sB]
        withInitTy(re, DestTy, initTy) ==
            IF re.failed
            THEN [done |-> TRUE,
                  s |-> IF ~isNull(DestTy)
                        THEN diagnose(re.s, d, "while_converting_var_init")
                        ELSE re.s]
            ELSE converted([re.s EXCEPT !.ast[d].initChecked = TRUE,
                                        !.ast[d].initTy = initTy],
                           DestTy, initTy)
        withDestTy(sA, DestTy) ==
            withInitTy(typeCheckExpression(sA, d), DestTy,
                       IF isNull(DestTy) THEN convertToMaterializable(PBD.initTy)
                       ELSE DestTy)
        withPattern(sA) == withDestTy(sA, IF typed THEN sA.ast[d].patTy ELSE Unset)
        checked(rp) ==
            IF typed /\ rp.failed THEN [done |-> TRUE, s |-> rp.s]
            ELSE withPattern(IF typed THEN rp.s ELSE s)
    IN  checked(typeCheckPattern(s, d, FALSE))

\* visitPatternBindingDecl with no binding ever delayed
visitPatternBindingDecl_NeverDelayed(s, d, IsFirstPass, IsSecondPass, ub) ==
    LET PBD == s.ast[d]
        checked(pat) == [done |-> pat.failed, s |-> pat.s]
        bound(r) == IF r.done THEN r.s ELSE visitBoundVars(r.s, PBD.pattern, ub)
    IN  IF IsSecondPass
        THEN checkInitAgainstPattern(s, d)
        ELSE bound(IF PBD.hasInit /\ ~IsFirstPass
                   THEN checkPatternWithInit(s, d)
                   ELSE checked(typeCheckPattern(s, d, IsFirstPass)))

\* lines 204-250
visitPatternBindingDecl(s, d, IsFirstPass, IsSecondPass, ub) ==
    LET PBD == s.ast[d]
        DelayCheckingPattern == tuKind # "Library" /\ isModuleContext(PBD)
        checked(pat) == [done |-> pat.failed, s |-> pat.s]
        bound(r) == IF r.done THEN r.s ELSE visitBoundVars(r.s, PBD.pattern, ub)
    IN  IF IsSecondPass /\ ~DelayCheckingPattern
        THEN checkInitAgainstPattern(s, d)
        ELSE bound(IF PBD.hasInit /\ ~IsFirstPass
                   THEN checkPatternWithInit(s, d)
                   ELSE IF ~IsFirstPass \/ ~DelayCheckingPattern
                   THEN checked(typeCheckPattern(s, d, IsFirstPass))
                   ELSE [done |-> FALSE, s |-> s])

----------------------------------------------------------------------------
(* The visit methods of DeclChecker *)

TypeContextKinds == {"OneOf", "Struct", "Class", "Protocol", "Extension"}

\* DeclContext::isTypeContext of the context of D
isTypeContext(s, D) == D.ctx > 0 /\ s.ast[D.ctx].kind \in TypeContextKinds

\* getDeclaredType of the nominal or alias declaration d
getDeclaredType(s, d) == NominalType(s.ast[d].kind, d)

\* getDeclaredTypeInContext: a generic nominal is bound to its own parameters
getDeclaredTypeInContext(s, d) ==
    IF s.ast[d].generics.present THEN NominalType("BoundGeneric", d)
    ELSE NominalType(s.ast[d].kind, d)

\* the type of 'this' in the context of D
contextType(s, D) ==
    IF ~isTypeContext(s, D) THEN ErrorType
    ELSE IF s.ast[D.ctx].kind = "Extension" THEN s.ast[D.ctx].underlying.ty
    ELSE getDeclaredTypeInContext(s, D.ctx)

\* lines 64-73, from the i-th inherited type on (the call is logged on entry, at
\* i = 1): a read of an inherited type that was never validated is a read through
\* a null type
RECURSIVE checkExplicitConformance(_, _, _, _)
checkExplicitConformance(s, d, i, ub) ==
    LET Inherited == s.ast[d].inherited
        loop(s0) ==
            IF i > Len(Inherited) THEN s0
            ELSE IF isNull(Inherited[i].ty)
            THEN IF ub = "crash" THEN crash(s0)
                 ELSE checkExplicitConformance(s0, d, i + 1, ub)
            ELSE IF isExistentialType(Inherited[i].ty)
            THEN checkExplicitConformance(log(s0, "conformsToProtocol", d, i), d, i + 1, ub)
            ELSE checkExplicitConformance(s0, d, i + 1, ub)
    IN  IF s.crashed THEN s
        ELSE loop(IF i = 1 THEN log(s, "checkExplicitConformance", d, 0) ELSE s)

\* checkInherited(D, D->getInherited())
checkInheritedOf(s, d, isFirstPass) ==
    LET store(r) == [r.s EXCEPT !.ast[d].inherited = r.list]
    IN  store(checkInherited(s, d, s.ast[d].inherited, 1, isFirstPass))

\* lines 252-266
visitSubscriptDecl(s, d, IsFirstPass, IsSecondPass) ==
    LET SD == s.ast[d]
        s1 == IF ~isTypeContext(s, SD) THEN diagnose(s, d, "subscript_not_member") ELSE s
        v == validateType(SD.underlying, IsFirstPass)
        s2 == [log(s1, "validateType", d, 0) EXCEPT !.ast[d].underlying = v.loc]
        indexed(r) ==
            IF ~r.failed
            THEN setType(r.s, d, FunctionType(r.s.ast[d].patTy, r.s.ast[d].underlying.ty))
            ELSE r.s
    IN  IF IsSecondPass THEN s
        ELSE indexed(typeCheckPattern(s2, d, IsFirstPass))

\* visitTypeAliasDecl with the conformance check made in every visit
visitTypeAliasDecl_ConformsInEveryPass(s, d, IsFirstPass, IsSecondPass, ub) ==
    LET TAD == s.ast[d]
        v == validateType(TAD.underlying, IsFirstPass)
        s1 == [log(s, "validateType", d, 0) EXCEPT !.ast[d].underlying = v.loc]
        conform(s2) == checkExplicitConformance(s2, d, 1, ub)
    IN  conform(IF IsSecondPass THEN s
                ELSE IF TAD.ctx > 0 /\ s.ast[TAD.ctx].kind = "Protocol" THEN s1
                ELSE checkInheritedOf(s1, d, IsFirstPass))

\* lines 268-278
visitTypeAliasDecl(s, d, IsFirstPass, IsSecondPass, ub) ==
    LET TAD == s.ast[d]
        v == validateType(TAD.underlying, IsFirstPass)
        s1 == [log(s, "validateType", d, 0) EXCEPT !.ast[d].underlying = v.loc]
        conform(s2) == IF ~IsFirstPass THEN checkExplicitConformance(s2, d, 1, ub) ELSE s2
    IN  conform(IF IsSecondPass THEN s
                ELSE IF TAD.ctx > 0 /\ s.ast[TAD.ctx].kind = "Protocol" THEN s1
                ELSE checkInheritedOf(s1, d, IsFirstPass))

\* the Var members of a struct, properties among them
RECURSIVE impliedCtorElts_WithProperties(_, _)
impliedCtorElts_WithProperties(s, Members) ==
    IF Members = << >> THEN << >>
    ELSE LET VarD == s.ast[Head(Members)]
         IN  (IF VarD.kind = "Var"
              THEN << TupleTypeElt(VarD.name, VarD.type, FALSE) >> ELSE << >>)
             \o impliedCtorElts_WithProperties(s, Tail(Members))

\* the non-property Var members of a struct, in declaration order (lines 307-312)
RECURSIVE impliedCtorElts(_, _)
impliedCtorElts(s, Members) ==
    IF Members = << >> THEN << >>
    ELSE LET VarD == s.ast[Head(Members)]
         IN  (IF VarD.kind = "Var" /\ ~VarD.isProperty
              THEN << TupleTypeElt(VarD.name, VarD.type, FALSE) >> ELSE << >>)
             \o impliedCtorElts(s, Tail(Members))

\* the implied element constructor of a struct (lines 304-319)
synthesizeElementCtor(s, d, ub) ==
    LET SD == s.ast[d]
        ElementCtor == SD.members[Len(SD.members)]
        create(TT) ==
            IF ub = "crash" /\ \E i \in 1..Len(TT.elts) : isNull(TT.elts[i].ty)
            THEN crash(s)
            ELSE [s EXCEPT !.ast[ElementCtor].type =
                               FunctionType(TT, getDeclaredTypeInContext(s, d)),
                           !.ast[ElementCtor].argLoc = [expr |-> "Synth", ty |-> TT]]
    IN  create(TupleType(impliedCtorElts(s, SD.members)))

\* visitFuncDecl without the early return of the second pass
visitFuncDecl_InEveryPass(s, d, IsFirstPass, IsSecondPass) ==
    LET FD == s.ast[d]
        s1 == IF FD.isInstanceMember /\ isNull(FD.thisTy)
              THEN [s EXCEPT !.ast[d].thisTy = contextType(s, FD)] ELSE s
        s2 == checkGenericParams(s1, d, IsFirstPass)
        s3 == setType(log(s2, "semaFuncExpr", d, 0), d, FD.bodyTy)
    IN  validateAttributes(log(s3, "validateAttributes", d, 0), d)

\* lines 379-404
visitFuncDecl(s, d, IsFirstPass, IsSecondPass) ==
    LET FD == s.ast[d]
        s1 == IF FD.isInstanceMember /\ isNull(FD.thisTy)
              THEN [s EXCEPT !.ast[d].thisTy = contextType(s, FD)] ELSE s
        s2 == checkGenericParams(s1, d, IsFirstPass)
        s3 == setType(log(s2, "semaFuncExpr", d, 0), d, FD.bodyTy)
    IN  IF IsSecondPass THEN s
        ELSE validateAttributes(log(s3, "validateAttributes", d, 0), d)

\* lines 406-436
visitOneOfElementDecl(s, d, IsFirstPass, IsSecondPass) ==
    LET ED == s.ast[d]
        ElemTy == getDeclaredTypeInContext(s, ED.ctx)
        typed(v, s2) ==
            IF ~isMaterializable(v.loc.ty)
            THEN diagnose(s2, d, "oneof_element_not_materializable")
            ELSE s2
        validated(v, s1) ==
            IF v.failed THEN s1
            ELSE typed(v, setType(s1, d, FunctionType(v.loc.ty, ElemTy)))
        argument(v) ==
            validated(v, [log(s, "validateType", d, 0) EXCEPT !.ast[d].argLoc = v.loc])
    IN  IF IsSecondPass THEN s
        ELSE IF ~(ED.ctx > 0 /\ s.ast[ED.ctx].kind = "OneOf") THEN s
        ELSE IF ED.argLoc.expr = "None" THEN setType(s, d, ElemTy)
        ELSE argument(validateType(ED.argLoc, IsFirstPass))

\* lines 468-495
visitConstructorDecl(s, d, IsFirstPass, IsSecondPass) ==
    LET CD == s.ast[d]
        s1 == IF ~isTypeContext(s, CD) THEN diagnose(s, d, "constructor_not_member") ELSE s
        s2 == checkGenericParams(s1, d, IsFirstPass)
        ThisTy == contextType(s, CD)
        s3 == [s2 EXCEPT !.ast[d].thisTy = ThisTy]
        FnTy(ArgTy) == IF CD.generics.present
                       THEN PolymorphicFunctionType(ArgTy, ThisTy, d)
                       ELSE FunctionType(ArgTy, ThisTy)
        typed(r) == IF r.failed THEN setType(r.s, d, ErrorType)
                    ELSE setType(r.s, d, FnTy(r.s.ast[d].patTy))
    IN  IF IsSecondPass THEN s
        ELSE validateAttributes(
                 log(typed(typeCheckPattern(s3, d, IsFirstPass)), "validateAttributes", d, 0),
                 d)

\* lines 497-512
visitDestructorDecl(s, d, IsFirstPass, IsSecondPass) ==
    LET DD == s.ast[d]
        s1 == IF ~(DD.ctx > 0 /\ s.ast[DD.ctx].kind = "Class")
              THEN diagnose(s, d, "destructor_not_member") ELSE s
        ThisTy == contextType(s, DD)
        s2 == [s1 EXCEPT !.ast[d].type = FunctionType(ThisTy, EmptyTuple),
                         !.ast[d].thisTy = ThisTy]
    IN  IF IsSecondPass THEN s
        ELSE validateAttributes(log(s2, "validateAttributes", d, 0), d)

\* lines 438-453: the part of visitExtensionDecl before the members
checkExtended(s, d, IsFirstPass) ==
    LET ED == s.ast[d]
        extended(v, s1) ==
            IF v.loc.ty.k \notin {"OneOf", "Struct", "Class", "Error", "UnboundGeneric"}
            THEN diagnose(s1, d, "non_nominal_extension") ELSE s1
        validated(v) ==
            extended(v, [log(s, "validateType", d, 0) EXCEPT !.ast[d].underlying = v.loc])
    IN  checkInheritedOf(validated(validateType(ED.underlying, IsFirstPass)), d, IsFirstPass)

\* lines 351-367: the archetypes of the associated types of a protocol
RECURSIVE assignAssociatedTypes(_, _, _)
assignAssociatedTypes(s, Members, IsFirstPass) ==
    IF Members = << >> THEN s
    ELSE LET m == Head(Members)
             Index == IF s.ast[m].name = "This" THEN 0 ELSE -1
             InheritedTypes(Inherited) == [i \in 1..Len(Inherited) |-> Inherited[i].ty]
             UnderlyingTy(s1) ==
                 [k |-> "Archetype", id |-> s1.nextArch, name |-> s.ast[m].name,
                  inheritedTypes |-> InheritedTypes(s1.ast[m].inherited), index |-> Index]
             associated(s1) ==
                 assignAssociatedTypes(
                     [log(s1, "getNewArchetype", m, 0) EXCEPT
                         !.ast[m].underlying = [expr |-> "Synth", ty |-> UnderlyingTy(s1)],
                         !.nextArch = @ + 1],
                     Tail(Members), IsFirstPass)
         IN  IF s.ast[m].kind = "TypeAlias"
             THEN associated(checkInheritedOf(s, m, IsFirstPass))
             ELSE assignAssociatedTypes(s, Tail(Members), IsFirstPass)

RECURSIVE visit(_, _, _, _, _)
RECURSIVE visitMembers(_, _, _, _, _)

\* for (Decl *Member : D->getMembers()) visit(Member)
visitMembers(s, Members, IsFirstPass, IsSecondPass, ub) ==
    IF Members = << >> \/ s.crashed THEN s
    ELSE visitMembers(visit(s, Head(Members), IsFirstPass, IsSecondPass, ub),
                      Tail(Members), IsFirstPass, IsSecondPass, ub)

\* visitOneOfDecl, visitStructDecl, visitClassDecl (lines 280-338)
visitNominalDecl(s, d, IsFirstPass, IsSecondPass, ub) ==
    LET s1 == IF ~IsSecondPass
              THEN checkGenericParams(checkInheritedOf(s, d, IsFirstPass), d, IsFirstPass)
              ELSE s
        conform(s3) ==
            IF ~IsFirstPass /\ ~s3.crashed THEN checkExplicitConformance(s3, d, 1, ub)
            ELSE s3
        visited(s2) ==
            conform(IF ~IsSecondPass /\ s.ast[d].kind = "Struct" /\ ~s2.crashed
                    THEN synthesizeElementCtor(s2, d, ub) ELSE s2)
    IN  visited(visitMembers(s1, s.ast[d].members, IsFirstPass, IsSecondPass, ub))

\* visitProtocolDecl with the members visited before the archetypes are assigned
visitProtocolDecl_MembersFirst(s, d, IsFirstPass, IsSecondPass, ub) ==
    IF IsSecondPass THEN s
    ELSE assignAssociatedTypes(
             visitMembers(checkInheritedOf(s, d, IsFirstPass), s.ast[d].members,
                          IsFirstPass, IsSecondPass, ub),
             s.ast[d].members, IsFirstPass)

\* lines 340-372
visitProtocolDecl(s, d, IsFirstPass, IsSecondPass, ub) ==
    IF IsSecondPass THEN s
    ELSE visitMembers(assignAssociatedTypes(checkInheritedOf(s, d, IsFirstPass),
                                            s.ast[d].members, IsFirstPass),
                      s.ast[d].members, IsFirstPass, IsSecondPass, ub)

\* visitExtensionDecl with the extended type and the inheritance clause left
\* unchecked
visitExtensionDecl_InheritedUnchecked(s, d, IsFirstPass, IsSecondPass, ub) ==
    LET conform(s2) ==
            IF ~IsFirstPass /\ ~s2.crashed THEN checkExplicitConformance(s2, d, 1, ub)
            ELSE s2
    IN  conform(visitMembers(s, s.ast[d].members, IsFirstPass, IsSecondPass, ub))

\* lines 438-461
visitExtensionDecl(s, d, IsFirstPass, IsSecondPass, ub) ==
    LET s1 == IF ~IsSecondPass THEN checkExtended(s, d, IsFirstPass) ELSE s
        conform(s2) ==
            IF ~IsFirstPass /\ ~s2.crashed THEN checkExplicitConformance(s2, d, 1, ub)
            ELSE s2
    IN  conform(visitMembers(s1, s.ast[d].members, IsFirstPass, IsSecondPass, ub))

\* the pass a visit belongs to: 1 first, 2 second, 0 neither
passOf(IsFirstPass, IsSecondPass) == IF IsFirstPass THEN 1 ELSE IF IsSecondPass THEN 2 ELSE 0

\* DeclVisitor::visit: the dispatch on the kind of the declaration
visit(s, d, IsFirstPass, IsSecondPass, ub) ==
    LET k == s.ast[d].kind
        s0 == log(s, "visit", d, passOf(IsFirstPass, IsSecondPass))
    IN  CASE k = "PatternBinding" -> visitPatternBindingDecl(s0, d, IsFirstPass, IsSecondPass, ub)
          [] k = "Subscript" -> visitSubscriptDecl(s0, d, IsFirstPass, IsSecondPass)
          [] k = "TypeAlias" -> visitTypeAliasDecl(s0, d, IsFirstPass, IsSecondPass, ub)
          [] k \in {"OneOf", "Struct", "Class"} ->
                visitNominalDecl(s0, d, IsFirstPass, IsSecondPass, ub)
          [] k = "Protocol" -> visitProtocolDecl(s0, d, IsFirstPass, IsSecondPass, ub)
          [] k = "Func" -> visitFuncDecl(s0, d, IsFirstPass, IsSecondPass)
          [] k = "OneOfElement" -> visitOneOfElementDecl(s0, d, IsFirstPass, IsSecondPass)
          [] k = "Extension" -> visitExtensionDecl(s0, d, IsFirstPass, IsSecondPass, ub)
          [] k = "TopLevelCode" -> crash(s0)
          [] k = "Constructor" -> visitConstructorDecl(s0, d, IsFirstPass, IsSecondPass)
          [] k = "Destructor" -> visitDestructorDecl(s0, d, IsFirstPass, IsSecondPass)
          [] OTHER -> s0

\* typeCheckDecl with the second pass flag set whatever the context of D is
typeCheckDecl_AnyContext(s, d, isFirstPass, ub) ==
    visit(s, d, isFirstPass, ~isFirstPass, ub)

\* TypeChecker::typeCheckDecl, lines 517-520
typeCheckDecl(s, d, isFirstPass, ub) ==
    LET isSecondPass == ~isFirstPass /\ isModuleContext(s.ast[d])
    IN  visit(s, d, isFirstPass, isSecondPass, ub)

----------------------------------------------------------------------------
(* Attribute validation on its own: one value declaration VD (decl 1), two   *)
(* other declarations of the translation unit (decls 2 and 3) and the        *)
(* imported modules; validateAttributes is applied to VD.                    *)

Int1 == TupleTypeElt("a", IntType, FALSE)
Int2 == TupleTypeElt("b", IntType, FALSE)
Int3 == TupleTypeElt("c", IntType, FALSE)
Ref1 == TupleTypeElt("a", LValueType(IntType), FALSE)
Def1 == TupleTypeElt("a", IntType, TRUE)
ThisType == NominalType("Struct", 9)

\* what semaFuncExpr computes for a function that is not an instance member
PlainFuncTypes ==
    { FunctionType(TupleType(<< >>), IntType),
      FunctionType(TupleType(<<Int1>>), IntType),
      FunctionType(TupleType(<<Ref1>>), EmptyTuple),
      FunctionType(TupleType(<<Ref1>>), IntType),
      FunctionType(TupleType(<<Int1, Int2>>), IntType),
      FunctionType(TupleType(<<Ref1, Int2>>), EmptyTuple),
      FunctionType(TupleType(<<Int1, Int2, Int3>>), IntType),
      FunctionType(IntType, IntType),
      FunctionType(LValueType(IntType), EmptyTuple) }

\* what it computes for an instance member: This -> (Args -> Result)
MethodTypes ==
    { FunctionType(ThisType, FunctionType(TupleType(<< >>), IntType)),
      FunctionType(ThisType, FunctionType(TupleType(<<Def1>>), IntType)),
      FunctionType(ThisType, FunctionType(TupleType(<<Def1, Int2>>), IntType)),
      FunctionType(ThisType, FunctionType(IntType, IntType)) }

\* the types a value declaration of each kind can have when its attributes are validated
TypesOf(kind, inst) ==
    CASE kind = "Func" -> {ErrorType} \cup (IF inst THEN MethodTypes ELSE PlainFuncTypes)
      [] kind = "Constructor" -> {ErrorType, FunctionType(TupleType(<<Int1>>), ThisType)}
      [] kind = "Destructor" -> {FunctionType(ThisType, EmptyTuple)}
      [] OTHER -> {ErrorType, IntType, FunctionType(TupleType(<<Int1, Int2>>), IntType)}

NamesOf(kind) ==
    CASE kind = "Constructor" -> {"constructor"}
      [] kind = "Destructor" -> {"destructor"}
      [] OTHER -> {"+", "&", "foo"}

ValueDecl(kind, ctx, name, inst, ty, attrs) ==
    [BlankDecl EXCEPT !.kind = kind, !.ctx = ctx, !.name = name,
                      !.isInstanceMember = inst, !.type = ty, !.attrs = attrs]

\* the Infix data the other declarations carry: none, the lowest, the highest
InfixData == {0, 1, MaxPrec}

BinaryFunc(name, i) ==
    ValueDecl("Func", 0, name, FALSE, FunctionType(TupleType(<<Int1, Int2>>), IntType),
              [NoAttrs EXCEPT !.Infix = i])

\* a previously declared function of the translation unit
OtherDecls == { BinaryFunc("+", i) : i \in InfixData } \cup { BinaryFunc("-", 1) }

\* the value declarations named "+" a module holds, with their Infix data
ModuleDecls == { [name |-> "+", Infix |-> i] : i \in InfixData }

SeqsUpTo(S, n) == UNION { [1..k -> S] : k \in 0..n }

\* an imported module: loaded with its declarations, or not loaded
Modules == { [loaded |-> TRUE, decls |-> ds] : ds \in SeqsUpTo(ModuleDecls, MaxFound) }
               \cup { [loaded |-> FALSE, decls |-> << >>] }

\* one module holding a "-" and a "+" with Infix
OneModule == << [loaded |-> TRUE, decls |-> << [name |-> "-", Infix |-> 1],
                                               [name |-> "+", Infix |-> MaxPrec] >>] >>

\* every kind, type, name and attribute set of VD, in a fixed environment
InitAttrsWide ==
    /\ \E kind \in {"Var", "Func", "Constructor", "Destructor"}, ctx \in {0, 9},
          inst \in BOOLEAN, attrs \in AllAttrs :
          \E name \in NamesOf(kind), ty \in TypesOf(kind, inst) :
            /\ inst => ctx # 0
            /\ ast = [d \in 1..3 |->
                        CASE d = 1 -> ValueDecl(kind, ctx, name, inst, ty, attrs)
                          [] d = 2 -> ValueDecl("Func", 0, "+", FALSE,
                                         FunctionType(TupleType(<<Int1, Int2>>), IntType),
                                         [NoAttrs EXCEPT !.Infix = 1])
                          [] d = 3 -> ValueDecl("Func", 0, "foo", FALSE,
                                         FunctionType(TupleType(<<Int1>>), IntType), NoAttrs)]
            /\ tuDecls = IF ctx = 0 THEN <<2, 1, 3>> ELSE <<2, 3>>
    /\ imports = << >>

\* a binary operator function VD beside every pair of other declarations
InitAttrsUnit ==
    /\ \E ctx \in {0, 9}, i \in 0..MaxPrec, o2 \in OtherDecls, o3 \in OtherDecls :
            /\ ast = [d \in 1..3 |->
                        CASE d = 1 -> [BinaryFunc("+", i) EXCEPT !.ctx = ctx]
                          [] d = 2 -> o2
                          [] d = 3 -> o3]
            /\ tuDecls = IF ctx = 0 THEN <<2, 1, 3>> ELSE <<2, 3>>
    /\ imports \in {<< >>, OneModule}

\* a binary operator function VD without Infix, none of its name in the unit, and
\* every list of imported modules
InitAttrsImports ==
    /\ \E ctx \in {0, 9} :
            /\ ast = [d \in 1..3 |->
                        CASE d = 1 -> [BinaryFunc("+", 0) EXCEPT !.ctx = ctx]
                          [] d = 2 -> BinaryFunc("-", 1)
                          [] d = 3 -> BinaryFunc("+", 0)]
            /\ tuDecls = IF ctx = 0 THEN <<2, 1, 3>> ELSE <<2, 3>>
    /\ imports \in [1..MaxImports -> Modules]

InitAttrs ==
    /\ tuKind = "Library"
    /\ InitAttrsWide \/ InitAttrsUnit \/ InitAttrsImports
    /\ parsed = ast
    /\ diags = << >>
    /\ trace = << >>
    /\ nextArch = 1
    /\ crashed = FALSE
    /\ pass = "attrs"
    /\ idx = 0

Commit(s) ==
    /\ ast' = s.ast
    /\ diags' = s.diags
    /\ trace' = s.trace
    /\ nextArch' = s.nextArch
    /\ crashed' = s.crashed

\* validateAttributes(VD)
ValidateAttributes ==
    /\ pass = "attrs"
    /\ idx = 0
    /\ Commit(validateAttributes(S0, 1))
    /\ idx' = 1
    /\ UNCHANGED <<tuKind, tuDecls, imports, parsed, pass>>

NextAttrs == ValidateAttributes

SpecAttrs == InitAttrs /\ [][NextAttrs]_vars

----------------------------------------------------------------------------
(* The driver: every declaration of the translation unit goes through        *)
(* typeCheckDecl in the first pass, then every one in the second pass; the   *)
(* declarations local to function bodies go through it once, isFirstPass     *)
(* false, when the bodies are checked.                                       *)

localDecls == <<8, 9>>

Conformance(subj, proto) ==
    [kind |-> "Conformance", subject |-> TypeLoc(subj), protocol |-> TypeLoc(proto),
     first |-> TypeLoc("Int"), second |-> TypeLoc("Int")]
SameType(a, b) ==
    [kind |-> "SameType", subject |-> TypeLoc("Int"), protocol |-> TypeLoc("Int"),
     first |-> TypeLoc(a), second |-> TypeLoc(b)]
TypeParam(n, inh) == [name |-> n, inherited |-> inh, underlying |-> Unset]
Generics(ps, rs) == [present |-> TRUE, params |-> ps, reqs |-> rs]

OneParam == Generics(<<TypeParam("T1", <<TypeLoc("P1")>>)>>, <<Conformance("T1", "P2")>>)

\* a second parameter, inheriting a struct, and a requirement naming the struct
TwoParams ==
    Generics(OneParam.params \o <<TypeParam("T2", <<TypeLoc("A")>>)>>,
             OneParam.reqs \o <<Conformance("T2", "A")>>)

\* the attribute sets the declarations of a program carry
SomeAttrs == { NoAttrs, [NoAttrs EXCEPT !.Byref = TRUE],
               [NoAttrs EXCEPT !.Infix = 1, !.AutoClosure = TRUE] }

\* a binding's initializer: absent, well typed, ill typed
Inits == { [has |-> FALSE, ok |-> TRUE], [has |-> TRUE, ok |-> TRUE],
           [has |-> TRUE, ok |-> FALSE] }

Args(e) == TuplePattern(<<Typed(AnyPattern, e)>>)

\* a declaration of kind k in context ctx, built from the drawn pieces
MakeDecl(k, ctx, inst, e, attrs, gen) ==
    [BlankDecl EXCEPT
        !.kind = k, !.ctx = ctx, !.attrs = attrs,
        !.name = CASE k = "Constructor" -> "constructor"
                   [] k = "Destructor" -> "destructor"
                   [] k = "Subscript" -> "subscript"
                   [] OTHER -> "foo",
        !.isInstanceMember = inst /\ k \in {"Func", "Var"},
        !.generics = IF k \in {"Func", "Constructor", "OneOf", "Struct", "Class"}
                     THEN gen ELSE NoGenerics,
        !.pattern = IF k \in {"Constructor", "Subscript"} THEN Args(e) ELSE NoPattern,
        !.underlying = TypeLoc(IF k = "Extension" THEN e ELSE "Int"),
        !.inherited = IF k = "TypeAlias" THEN <<TypeLoc(e)>> ELSE << >>,
        !.argLoc = TypeLoc(IF k = "OneOfElement" THEN e ELSE "None"),
        !.bodyTy = IF k # "Func" THEN Unset
                   ELSE IF e = "Bad" THEN ErrorType
                   ELSE IF inst
                   THEN FunctionType(ThisType, FunctionType(TupleType(<<Int1>>), IntType))
                   ELSE FunctionType(TupleType(<<Int1>>), IntType)]

VarDecl(n, ctx, prop, attrs) ==
    [BlankDecl EXCEPT !.kind = "Var", !.ctx = ctx, !.name = n, !.isProperty = prop,
                      !.isInstanceMember = ctx > 0, !.attrs = attrs]

PatternBindingDecl(ctx, P, init, ity) ==
    [BlankDecl EXCEPT !.kind = "PatternBinding", !.ctx = ctx, !.pattern = P,
                      !.hasInit = init.has, !.initOK = init.ok, !.initTy = ity]

ImportDecl(ctx) == [BlankDecl EXCEPT !.ctx = ctx]

\* the patterns of a binding of the variable v
BindingPatterns(v) ==
    { Typed(Named(v), e) : e \in {"Int", "Ref", "Bad"} }
    \cup { Named(v), Paren(Typed(Named(v), "Int")),
           TuplePattern(<<Typed(Named(v), "Int"), AnyPattern>>) }

\* a container at module scope (an extension extends x1) with a variable, its
\* binding, one more member and, last, an element
InitContainer ==
    \E k1 \in {"Struct", "Class", "OneOf", "Extension", "Protocol"},
       e1 \in {"P1", "A", "Bad"}, x1 \in {"A", "P1"},
       gen \in {NoGenerics, TwoParams}, prop \in BOOLEAN,
       ann \in {"Int", "Ref", "Bad"}, init \in Inits,
       k4 \in {"Func", "Constructor", "Destructor", "Subscript", "TypeAlias", "OneOfElement"},
       e4 \in {"Int", "Bad"}, attrs \in SomeAttrs :
        /\ tuKind = "Library"
        /\ ast = [d \in 1..9 |->
              CASE d = 1 -> [MakeDecl(k1, 0, FALSE, IF k1 = "Extension" THEN x1 ELSE e1,
                                      NoAttrs, gen)
                                EXCEPT !.members = <<2, 3, 4, 5>>,
                                       !.inherited = <<TypeLoc(e1)>>]
                [] d = 2 -> VarDecl("x", 1, prop, IF k4 = "TypeAlias" THEN attrs ELSE NoAttrs)
                [] d = 3 -> PatternBindingDecl(1, Typed(Named(2), ann), init, IntType)
                [] d = 4 -> MakeDecl(k4, 1, TRUE, e4, attrs, NoGenerics)
                [] d = 5 -> MakeDecl("OneOfElement", 1, FALSE, "None", NoAttrs, NoGenerics)
                [] d = 7 -> VarDecl("g", 0, FALSE, NoAttrs)
                [] d = 9 -> VarDecl("l", -1, FALSE, NoAttrs)
                [] d = 8 -> ImportDecl(-1)
                [] OTHER -> ImportDecl(0)]

\* a declaration at module scope and one local to a function body, each of any
\* kind, beside a plain struct
InitLeaves ==
    \E k6 \in {"Func", "Constructor", "Destructor", "Subscript", "TypeAlias",
                "PatternBinding", "Import"},
       k8 \in {"Func", "Constructor", "Subscript", "TypeAlias", "PatternBinding"},
       e \in {"Int", "Bad", "Fwd", "P1"}, attrs \in SomeAttrs, init \in Inits,
       P \in BindingPatterns(7), ity \in {IntType, LValueType(IntType)} :
        /\ tuKind \in {"Library", "Main"}
        /\ ast = [d \in 1..9 |->
              CASE d = 1 -> [MakeDecl("Struct", 0, FALSE, "Int", NoAttrs, NoGenerics)
                                EXCEPT !.members = <<2, 3, 4, 5>>]
                [] d = 2 -> VarDecl("x", 1, FALSE, NoAttrs)
                [] d = 3 -> PatternBindingDecl(1, Typed(Named(2), "Int"),
                                               [has |-> FALSE, ok |-> TRUE], IntType)
                [] d = 4 -> VarDecl("y", 1, TRUE, NoAttrs)
                [] d = 5 -> MakeDecl("OneOfElement", 1, FALSE, "None", NoAttrs, NoGenerics)
                [] d = 6 -> IF k6 = "PatternBinding" THEN PatternBindingDecl(0, P, init, ity)
                            ELSE MakeDecl(k6, 0, FALSE, e, attrs, NoGenerics)
                [] d = 7 -> VarDecl("g", 0, FALSE, attrs)
                [] d = 8 -> IF k8 = "PatternBinding"
                            THEN PatternBindingDecl(-1, Typed(Named(9), e), init, ity)
                            ELSE MakeDecl(k8, -1, FALSE, e, attrs, NoGenerics)
                [] OTHER -> VarDecl("l", -1, FALSE, attrs)]

\* declarations two levels deep: a container at module scope (decl 1) holding an
\* alias and an inner container (decl 3), whose member (decl 4) is an alias or a
\* binding with no variable (when decl 3 is an alias too, decl 4 is a member of
\* decl 1); and a container local to a function body (decl 8) holding an alias
\* (decl 5)
InitNested ==
    \E k1 \in {"Class", "Extension", "Protocol"}, k3 \in {"Class", "OneOf", "Protocol", "TypeAlias"},
       k4 \in {"TypeAlias", "PatternBinding"}, k8 \in {"Class", "Protocol"},
       e \in {"P1", "A", "Bad"}, n \in {"This", "Elt"}, init \in Inits :
        /\ tuKind \in {"Library", "Main"}
        /\ ast = [d \in 1..9 |->
              CASE d = 1 -> [MakeDecl(k1, 0, FALSE, "A", NoAttrs, OneParam)
                                EXCEPT !.members = IF k3 = "TypeAlias" THEN <<2, 3, 4>>
                                                   ELSE <<2, 3>>,
                                       !.inherited = <<TypeLoc("P1")>>]
                [] d = 2 -> [MakeDecl("TypeAlias", 1, FALSE, e, NoAttrs, NoGenerics)
                                EXCEPT !.name = n]
                [] d = 3 -> [MakeDecl(k3, 1, FALSE, "Int", NoAttrs, NoGenerics)
                                EXCEPT !.members = IF k3 = "TypeAlias" THEN << >> ELSE <<4>>,
                                       !.inherited = <<TypeLoc(e)>>]
                [] d = 4 -> IF k4 = "PatternBinding"
                            THEN PatternBindingDecl(IF k3 = "TypeAlias" THEN 1 ELSE 3,
                                                    Typed(AnyPattern, "Int"), init, IntType)
                            ELSE [MakeDecl("TypeAlias", IF k3 = "TypeAlias" THEN 1 ELSE 3,
                                           FALSE, "P2", NoAttrs, NoGenerics)
                                     EXCEPT !.name = "Elt",
                                            !.inherited = <<TypeLoc("P2"), TypeLoc(e)>>]
                [] d = 5 -> [MakeDecl("TypeAlias", 8, FALSE, e, NoAttrs, NoGenerics)
                                EXCEPT !.name = "This"]
                [] d = 7 -> VarDecl("g", 0, FALSE, NoAttrs)
                [] d = 8 -> [MakeDecl(k8, -1, FALSE, "Int", NoAttrs, NoGenerics)
                                EXCEPT !.members = <<5>>,
                                       !.inherited = <<TypeLoc(e)>>]
                [] d = 9 -> VarDecl("l", -1, FALSE, NoAttrs)
                [] OTHER -> ImportDecl(0)]

Init ==
    /\ InitContainer \/ InitLeaves \/ InitNested
    /\ tuDecls = <<1, 6, 7>>
    /\ imports = << >>
    /\ parsed = ast
    /\ diags = << >>
    /\ trace = << >>
    /\ nextArch = 1
    /\ crashed = FALSE
    /\ pass = "first"
    /\ idx = 1

\* typeCheckDecl(D, /*isFirstPass*/true) on the next declaration of the unit
TypeCheckFirstPass ==
    /\ pass = "first" /\ ~crashed
    /\ \E ub \in UBOutcomes : Commit(typeCheckDecl(S0, tuDecls[idx], TRUE, ub))
    /\ IF idx < Len(tuDecls) THEN idx' = idx + 1 /\ pass' = pass
       ELSE idx' = 1 /\ pass' = "second"
    /\ UNCHANGED <<tuKind, tuDecls, imports, parsed>>

\* typeCheckDecl(D, /*isFirstPass*/false) on the next declaration of the unit
TypeCheckSecondPass ==
    /\ pass = "second" /\ ~crashed
    /\ \E ub \in UBOutcomes : Commit(typeCheckDecl(S0, tuDecls[idx], FALSE, ub))
    /\ IF idx < Len(tuDecls) THEN idx' = idx + 1 /\ pass' = pass
       ELSE idx' = 1 /\ pass' = "bodies"
    /\ UNCHANGED <<tuKind, tuDecls, imports, parsed>>

\* typeCheckDecl(D, /*isFirstPass*/false) on the next declaration of a function body
TypeCheckLocalDecl ==
    /\ pass = "bodies" /\ ~crashed
    /\ \E ub \in UBOutcomes : Commit(typeCheckDecl(S0, localDecls[idx], FALSE, ub))
    /\ IF idx < Len(localDecls) THEN idx' = idx + 1 /\ pass' = pass
       ELSE idx' = 1 /\ pass' = "done"
    /\ UNCHANGED <<tuKind, tuDecls, imports, parsed>>

Next == TypeCheckFirstPass \/ TypeCheckSecondPass \/ TypeCheckLocalDecl

Spec == Init /\ [][Next]_vars

----------------------------------------------------------------------------
(* Generic parameter lists on their own: one generic class at module scope   *)
(* (decl 1) with every list of parameters and requirements; typeCheckDecl is *)
(* applied to it in the first pass, up to MaxVisits times.                   *)

ParamNames == <<"T1", "T2", "T3">>

\* the inheritance clause of a parameter: none, a protocol, a struct, no type
InheritedClauses == { << >>, <<TypeLoc("P1")>>, <<TypeLoc("A")>>, <<TypeLoc("Bad")>> }

\* the lists of 1..MaxParams parameters
ParamLists ==
    UNION { { [i \in 1..n |-> TypeParam(ParamNames[i], inh[i])] :
                inh \in [1..n -> InheritedClauses] } : n \in 1..MaxParams }

Requirements ==
    { Conformance(s, p) : s \in {"T1", "T2"}, p \in {"P1", "P2", "A", "Bad"} }
    \cup { SameType("T1", "Int"), SameType("Bad", "Int"), SameType("T1", "Bad") }

InitGeneric ==
    /\ tuKind = "Library"
    /\ \E ps \in ParamLists, rs \in SeqsUpTo(Requirements, MaxReqs) :
          ast = [d \in 1..1 |->
                    [BlankDecl EXCEPT !.kind = "Class", !.name = "C",
                                      !.generics = Generics(ps, rs)]]
    /\ tuDecls = <<1>>
    /\ imports = << >>
    /\ parsed = ast
    /\ diags = << >>
    /\ trace = << >>
    /\ nextArch = 1
    /\ crashed = FALSE
    /\ pass = "generic"
    /\ idx = 0

\* typeCheckDecl(D, /*isFirstPass*/true) on the generic class, once more
TypeCheckGenericDecl ==
    /\ pass = "generic" /\ idx < MaxVisits
    /\ \E ub \in UBOutcomes : Commit(typeCheckDecl(S0, 1, TRUE, ub))
    /\ idx' = idx + 1
    /\ UNCHANGED <<tuKind, tuDecls, imports, parsed, pass>>

NextGeneric == TypeCheckGenericDecl

SpecGeneric == InitGeneric /\ [][NextGeneric]_vars

----------------------------------------------------------------------------
(* Claims about validateAttributes, checked under SpecAttrs *)

Validated == pass = "attrs" /\ idx = 1
VD0 == parsed[1]
VD1 == ast[1]
HasDiag(kind, d) == \E i \in 1..Len(diags) : diags[i].kind = kind /\ diags[i].decl = d

\* some same-name declaration carrying Infix exists in the translation unit
InfixInTU(name) ==
    \E i \in 1..Len(tuDecls) :
        /\ parsed[tuDecls[i]].kind \in ValueDeclKinds
        /\ parsed[tuDecls[i]].name = name
        /\ isInfix(parsed[tuDecls[i]].attrs)

\* the Infix data of the first such declaration in source order
FirstInfixInTU(name) ==
    LET hits == { i \in 1..Len(tuDecls) :
                    /\ parsed[tuDecls[i]].kind \in ValueDeclKinds
                    /\ parsed[tuDecls[i]].name = name
                    /\ isInfix(parsed[tuDecls[i]].attrs) }
    IN  parsed[tuDecls[CHOOSE i \in hits : \A j \in hits : i <= j]].attrs.Infix

ModuleHits(m, name) ==
    { j \in 1..Len(imports[m].decls) :
        imports[m].decls[j].name = name /\ imports[m].decls[j].Infix # 0 }

\* some same-name declaration carrying Infix exists in an imported module
InfixInImports(name) ==
    \E m \in 1..Len(imports) : imports[m].loaded /\ ModuleHits(m, name) # {}

\* the Infix data of the first matching declaration of the first module that has one
FirstInfixInImports(name) ==
    LET ms == { m \in 1..Len(imports) : imports[m].loaded /\ ModuleHits(m, name) # {} }
        m1 == CHOOSE m \in ms : \A n \in ms : m <= n
        j1 == CHOOSE j \in ModuleHits(m1, name) : \A k \in ModuleHits(m1, name) : j <= k
    IN  imports[m1].decls[j1].Infix

BinaryOperatorFunc(D) == D.kind = "Func" /\ isOperator(D) /\ NumArguments(D.type) = 2

\* C4 as stated: every operator function with exactly two arguments has Infix after
\* validateAttributes iff it declared one or a same-name declaration carrying Infix
\* exists in the translation unit or an imported module; when none exists the
\* attribute stays unset and binops_infix_left is diagnosed.
C4_AsStated ==
    (Validated /\ BinaryOperatorFunc(VD1)) =>
        /\ isInfix(VD1.attrs) <=>
              (isInfix(VD0.attrs) \/ InfixInTU(VD0.name) \/ InfixInImports(VD0.name))
        /\ ~(isInfix(VD0.attrs) \/ InfixInTU(VD0.name) \/ InfixInImports(VD0.name))
              => (~isInfix(VD1.attrs) /\ HasDiag("binops_infix_left", 1))

\* C4 amended: the equivalence holds for the two-argument operator functions that
\* are declared directly in the translation unit and carry no Postfix attribute;
\* a two-argument operator function declared anywhere else, or one carrying
\* Postfix, ends validation with exactly the Infix it declared.
C4_InfixIffDeclaredOrFound ==
    (Validated /\ BinaryOperatorFunc(VD1)) =>
        IF isModuleContext(VD0) /\ ~VD0.attrs.Postfix
        THEN /\ isInfix(VD1.attrs) <=>
                   (isInfix(VD0.attrs) \/ InfixInTU(VD0.name) \/ InfixInImports(VD0.name))
             /\ ~(isInfix(VD0.attrs) \/ InfixInTU(VD0.name) \/ InfixInImports(VD0.name))
                   => (~isInfix(VD1.attrs) /\ HasDiag("binops_infix_left", 1))
        ELSE VD1.attrs.Infix = VD0.attrs.Infix

\* C4 witness: a module-scope binary operator without Infix of its own has been
\* validated and took its Infix from an imported module, none being in the unit.
C4_Witness ==
    /\ Validated /\ BinaryOperatorFunc(VD1) /\ isModuleContext(VD0)
    /\ ~isInfix(VD0.attrs) /\ ~InfixInTU(VD0.name) /\ InfixInImports(VD0.name)
    /\ isInfix(VD1.attrs)

\* C5 as stated: a binary operator that inherits Infix takes the data of the first
\* same-name Infix declaration of the translation unit in source order, and only
\* if there is none that of the first matching declaration of the first imported
\* module that has one; a later module never replaces it.
C5_FirstHitWins ==
    (/\ Validated /\ BinaryOperatorFunc(VD1) /\ isModuleContext(VD0)
     /\ ~isInfix(VD0.attrs) /\ ~VD0.attrs.Postfix) =>
        VD1.attrs.Infix =
            IF InfixInTU(VD0.name) THEN FirstInfixInTU(VD0.name)
            ELSE IF InfixInImports(VD0.name) THEN FirstInfixInImports(VD0.name)
            ELSE 0

\* the cases in which validateAttributes returns before the Assignment rule
ReturnsEarly(D) ==
    LET N == NumArguments(D.type)
    IN  \/ isOperator(D) /\ D.kind # "Func"
        \/ isOperator(D) /\ (N = 0 \/ N > 2)
        \/ isOperator(D) /\ N = 1 /\ D.name = "&"
        \/ isInfix(D.attrs) /\ (~isOperator(D) \/ N # 2)
        \/ D.attrs.Postfix /\ (~isOperator(D) \/ N # 1)

\* each flag's own rule of the attribute table
AssignmentAllowed(D) ==
    /\ D.kind = "Func" /\ isOperator(D) /\ NumArguments(D.type) >= 1
    /\ isLValueType(D.type.in.elts[1].ty)
ConversionAllowed(D) ==
    /\ D.kind = "Func" /\ D.isInstanceMember
    /\ isErrorType(D.type) \/ AcceptsEmptyParamList(D.type.out.in)
PostfixAllowed(D) == isOperator(D) /\ NumArguments(D.type) = 1
InfixAllowed(D) == D.kind = "Func" /\ isOperator(D) /\ NumArguments(D.type) = 2

\* C7 as stated: the rules are evaluated independently, the value of each flag
\* after validation depends only on that flag's own rule, whatever the other
\* flags are.
C7_AsStated ==
    Validated =>
        /\ VD1.attrs.Byref = FALSE
        /\ VD1.attrs.AutoClosure = FALSE
        /\ VD1.attrs.Postfix = (VD0.attrs.Postfix /\ PostfixAllowed(VD0))
        /\ VD1.attrs.Assignment = (VD0.attrs.Assignment /\ AssignmentAllowed(VD0))
        /\ VD1.attrs.Conversion = (VD0.attrs.Conversion /\ ConversionAllowed(VD0))
        /\ isInfix(VD0.attrs) => (isInfix(VD1.attrs) <=> InfixAllowed(VD0))

\* C7 amended: an operator-shape, Infix or Postfix violation ends validation: it
\* emits one diagnostic, clears at most the offending flag (Infix or Postfix) and
\* leaves every other flag as declared, its rule not evaluated. When validation
\* does not end that way, Assignment, Conversion, Byref and AutoClosure each
\* depend only on their own rule and Postfix is kept.
C7_RulesInOrder ==
    Validated =>
        IF ReturnsEarly(VD0)
        THEN /\ Len(diags) = 1
             /\ \A a \in {"Assignment", "Conversion", "Byref", "AutoClosure"} :
                    VD1.attrs[a] = VD0.attrs[a]
             /\ VD1.attrs.Infix \in {0, VD0.attrs.Infix}
             /\ VD1.attrs.Postfix => VD0.attrs.Postfix
             /\ VD1.attrs.Infix = VD0.attrs.Infix \/ VD1.attrs.Postfix = VD0.attrs.Postfix
        ELSE /\ VD1.attrs.Byref = FALSE
             /\ VD1.attrs.AutoClosure = FALSE
             /\ VD1.attrs.Postfix = VD0.attrs.Postfix
             /\ VD1.attrs.Assignment = (VD0.attrs.Assignment /\ AssignmentAllowed(VD0))
             /\ VD1.attrs.Conversion = (VD0.attrs.Conversion /\ ConversionAllowed(VD0))
             /\ VD0.attrs.Byref => HasDiag("invalid_decl_attribute_byref", 1)
             /\ VD0.attrs.AutoClosure => HasDiag("invalid_decl_attribute_auto_closure", 1)

\* C7 witness: validation ended on an Infix violation and left Byref, a second
\* violation, set and undiagnosed.
C7_Witness ==
    /\ Validated /\ isInfix(VD0.attrs) /\ ~isOperator(VD0) /\ VD0.attrs.Byref
    /\ ~isInfix(VD1.attrs) /\ VD1.attrs.Byref
    /\ ~HasDiag("invalid_decl_attribute_byref", 1)

----------------------------------------------------------------------------
(* Claims about checkGenericParams, checked under SpecGeneric *)

GenericVisited == pass = "generic" /\ idx >= 1
GP0 == parsed[1].generics
GP1 == ast[1].generics

\* the protocols a type expression of the input names
ProtocolsNamed(e) ==
    CASE e = "P1" -> {"P1"}
      [] e = "P2" -> {"P2"}
      [] OTHER -> {}

\* the protocols the i-th parameter declares in its inheritance clause
DeclaredProtocols(i) ==
    UNION { ProtocolsNamed(GP0.params[i].inherited[k].expr) :
              k \in 1..Len(GP0.params[i].inherited) }

\* the protocols of the Conformance requirements whose subject is the i-th parameter
RequiredProtocols(i) ==
    UNION { IF GP0.reqs[j].kind = "Conformance"
               /\ GP0.reqs[j].subject.expr = GP0.params[i].name
            THEN ProtocolsNamed(GP0.reqs[j].protocol.expr) ELSE {} :
              j \in 1..Len(GP0.reqs) }

\* C2: after checkGenericParams every parameter's underlying type is an archetype
\* or ErrorType, and an archetype conforms to exactly the protocols the parameter
\* inherits and those of the Conformance requirements on it that name a protocol.
C2_ArchetypeConformances ==
    GenericVisited =>
        \A i \in 1..Len(GP1.params) :
            \/ isErrorType(GP1.params[i].underlying)
            \/ /\ GP1.params[i].underlying.k = "Archetype"
               /\ GP1.params[i].underlying.conformsTo =
                      DeclaredProtocols(i) \cup RequiredProtocols(i)

\* C2 witness: a parameter got an archetype conforming to the protocol it inherits
\* and to the one a requirement adds, a second requirement on it being poisoned.
C2_Witness ==
    /\ GenericVisited
    /\ \E i \in 1..Len(GP1.params) :
        /\ GP1.params[i].underlying.k = "Archetype"
        /\ GP1.params[i].underlying.conformsTo = {"P1", "P2"}
        /\ DeclaredProtocols(i) = {"P1"}
        /\ \E j \in 1..Len(GP0.reqs) :
            /\ GP0.reqs[j].kind = "Conformance"
            /\ GP0.reqs[j].subject.expr = GP0.params[i].name
            /\ GP0.reqs[j].protocol.expr = "A"
            /\ isErrorType(GP1.reqs[j].protocol.ty)

\* a step that visits the declaration again in the same pass
Revisit == pass = "generic" /\ idx >= 1 /\ idx' = idx + 1

\* C3: the second visit of a declaration in the same pass adds no diagnostic and
\* leaves every parameter's underlying type and every inheritance clause type as
\* the first visit set them.
C3_RevisitIsNoOp ==
    [][Revisit =>
         /\ diags' = diags
         /\ \A i \in 1..Len(GP1.params) :
              /\ ast'[1].generics.params[i].underlying = GP1.params[i].underlying
              /\ \A k \in 1..Len(GP1.params[i].inherited) :
                   ast'[1].generics.params[i].inherited[k].ty =
                       GP1.params[i].inherited[k].ty]_vars

----------------------------------------------------------------------------
(* Claims about the visit methods, checked under Spec *)

\* the visits of declaration d recorded in tr with pass flag i
VisitsIn(tr, d, i) == { n \in 1..Len(tr) : tr[n] = [op |-> "visit", d |-> d, i |-> i] }
Visits(d, i) == VisitsIn(trace, d, i)

\* the calls of op on declaration d recorded in tr
CallsIn(tr, op, d) == { n \in 1..Len(tr) : tr[n].op = op /\ tr[n].d = d }

\* the declaration is the last member of a struct
IsElementCtor(d) ==
    \E S \in DOMAIN parsed :
        /\ parsed[S].kind = "Struct" /\ parsed[S].members # << >>
        /\ parsed[S].members[Len(parsed[S].members)] = d

\* the kinds of declaration that bear a type of their own
TypeBearing(d) ==
    \/ parsed[d].kind \in {"Func", "Constructor", "Destructor", "Subscript"}
    \/ /\ parsed[d].kind = "OneOfElement"
       /\ parsed[d].ctx > 0 /\ parsed[parsed[d].ctx].kind = "OneOf"
    \/ IsElementCtor(d)

\* both passes over the translation unit have run to their end
PassesDone == pass \in {"bodies", "done"} /\ ~crashed

\* C1: after the first pass and the second pass every declaration of a
\* type-bearing kind that was visited has its type slot set, to a computed type
\* or to ErrorType.
C1_TypeSlotSet ==
    PassesDone =>
        \A d \in DOMAIN ast :
            (TypeBearing(d) /\ parsed[d].ctx >= 0 /\ Visits(d, 1) # {}) =>
                ~isNull(ast[d].type)

IsField(m) == parsed[m].kind = "Var" /\ ~parsed[m].isProperty

\* the labeled tuple of the non-property Var members of S, in declaration order
ExpectedElts(S) ==
    LET Fields == SelectSeq(parsed[S].members, IsField)
    IN  [i \in 1..Len(Fields) |->
            TupleTypeElt(parsed[Fields[i]].name, ast[Fields[i]].type, FALSE)]

\* the declared type of S, bound to S's own parameters when S is generic
DeclaredTypeOf(S) ==
    IF parsed[S].generics.present THEN NominalType("BoundGeneric", S)
    ELSE NominalType(parsed[S].kind, S)

C8_AsStated ==
    \A d \in DOMAIN ast :
        parsed[d].ctx # 0 =>
            /\ Visits(d, 1) = {} /\ Visits(d, 2) = {}
            /\ Cardinality(Visits(d, 0)) <= 1
            /\ (pass = "done" /\ ~crashed) => Cardinality(Visits(d, 0)) = 1

\* the passes in which the handler of container c visits its members
VisitsMembersIn(c, i) == i # 2 \/ parsed[c].kind # "Protocol"

\* C8 amended: a declaration local to a function body, handed to typeCheckDecl
\* directly, is visited with both flags false, exactly once. A member reached by
\* a container handler's member loop is visited with the container's flags, once
\* for each visit of the container in which the handler visits its members: with
\* IsFirstPass in the first pass and once more with IsSecondPass in the second
\* (the members of a protocol never in the second pass), and with both false when
\* the container is local to a function body.
C8_VisitedWithContainerFlags ==
    LET visits == SelectSeq(trace, LAMBDA e : e.op = "visit")
        count == [d \in DOMAIN ast, i \in {0, 1, 2} |->
                     Cardinality({ n \in 1..Len(visits) :
                                     visits[n].d = d /\ visits[n].i = i })]
    IN  \A d \in DOMAIN ast :
            /\ parsed[d].ctx < 0 =>
                /\ count[d, 1] = 0 /\ count[d, 2] = 0
                /\ count[d, 0] <= 1
                /\ (pass = "done" /\ ~crashed) => count[d, 0] = 1
            /\ parsed[d].ctx > 0 =>
                (~crashed =>
                     \A i \in {0, 1, 2} :
                        count[d, i] =
                            IF VisitsMembersIn(parsed[d].ctx, i)
                            THEN count[parsed[d].ctx, i] ELSE 0)
            /\ parsed[d].ctx = 0 =>
                /\ count[d, 0] = 0
                /\ \A i \in {1, 2} : count[d, i] <= 1
                /\ PassesDone => \A i \in {1, 2} : count[d, i] = 1

\* C8 witness: both passes and the bodies are done; a member of the struct was
\* visited once in each pass and a local declaration once with neither flag.
C8_Witness ==
    /\ pass = "done" /\ ~crashed /\ parsed[1].kind = "Struct"
    /\ Cardinality(Visits(4, 1)) = 1 /\ Cardinality(Visits(4, 2)) = 1
    /\ Cardinality(Visits(8, 0)) = 1 /\ parsed[8].kind = "Func"

\* C9: no diagnostic is emitted for a declaration after its type slot has been
\* set to ErrorType.
C9_NoDiagnosticAfterError ==
    \A n \in 1..Len(diags) : ~diags[n].poisoned

\* C10: once a declaration's type slot is set it is never written again, and the
\* materialisability check and the attribute validation of a declaration never
\* run a second time.
C10_NoRecheck ==
    [][\A d \in DOMAIN ast :
          /\ ~isNull(ast[d].type) => ast'[d].type = ast[d].type
          /\ Cardinality(CallsIn(trace', "visitBoundVars", d)) <= 1
          /\ Cardinality(CallsIn(trace', "validateAttributes", d)) <= 1]_vars

----------------------------------------------------------------------------
(* Claims about the passes and the failures of the visit methods, checked under Spec *)

\* the pass flag of the visit of tr[n].d that the n-th entry of tr was made in:
\* that of the latest visit of that declaration before n
VisitFlagAt(tr, n) ==
    LET vs == { m \in 1..(n - 1) : tr[m].op = "visit" /\ tr[m].d = tr[n].d }
    IN  tr[CHOOSE m \in vs : \A k \in vs : k <= m].i

ConformanceOps == {"checkExplicitConformance", "conformsToProtocol"}

\* the declaration is local to a function body, itself or through its containers
RECURSIVE InFunctionBody(_)
InFunctionBody(d) ==
    parsed[d].ctx < 0 \/ (parsed[d].ctx > 0 /\ InFunctionBody(parsed[d].ctx))

\* C11 as stated: checkExplicitConformance and every call to conformsToProtocol
\* are made only in a visit where IsSecondPass is true.
C11_AsStated ==
    \A n \in 1..Len(trace) :
        trace[n].op \in ConformanceOps => VisitFlagAt(trace, n) = 2

\* C11 amended: checkExplicitConformance and every call to conformsToProtocol are
\* made only for TypeAlias, OneOf, Struct, Class and Extension declarations and
\* only in a visit where IsFirstPass is false: the second-pass visit of a
\* declaration at module scope or of a member of one, and the one visit, with
\* neither flag, of a declaration local to a function body or of a member of one.
C11_ConformanceNotInFirstPass ==
    \A n \in 1..Len(trace) :
        trace[n].op \in ConformanceOps =>
            /\ parsed[trace[n].d].kind \in {"TypeAlias", "OneOf", "Struct", "Class", "Extension"}
            /\ VisitFlagAt(trace, n) = IF InFunctionBody(trace[n].d) THEN 0 ELSE 2

\* C11 witness: the conformance of a type alias local to a function body was
\* checked against the protocol it inherits in its one visit, with neither flag.
C11_Witness ==
    \E n \in 1..Len(trace) :
        /\ trace[n].op = "conformsToProtocol"
        /\ parsed[trace[n].d].kind = "TypeAlias" /\ parsed[trace[n].d].ctx < 0
        /\ VisitFlagAt(trace, n) = 0
        /\ Visits(trace[n].d, 2) = {}

\* a pattern binding at module scope in a translation unit that is not a library
DelayedBinding(d) ==
    parsed[d].kind = "PatternBinding" /\ parsed[d].ctx = 0 /\ tuKind # "Library"

\* the calls of op on d made in the visits of d with pass flag i
CallsInPass(op, d, i) == { n \in CallsIn(trace, op, d) : VisitFlagAt(trace, n) = i }

Once(S) == Cardinality(S) = 1
Before(S, T) == \A m \in S, n \in T : m < n

\* C12: a pattern binding at module scope in a non-library translation unit has
\* no pattern check, no initializer check and no coercion in its first-pass
\* visit; its second-pass visit takes the full path: without an initializer the
\* pattern is checked; with one, a typed pattern is checked first, then, unless
\* that failed, the initializer, then, when there was no destination type and
\* the initializer checked, the pattern is coerced to the initializer's type.
C12_DelayedBindingCheckedInSecondPass ==
    \A d \in DOMAIN ast :
        DelayedBinding(d) =>
            LET Pat == CallsInPass("typeCheckPattern", d, 2)
                Ini == CallsInPass("typeCheckExpression", d, 2)
                Coe == CallsInPass("coerceToType", d, 2)
                typed == parsed[d].pattern.pk = "Typed"
            IN  /\ \A op \in {"typeCheckPattern", "typeCheckExpression", "coerceToType"} :
                      CallsInPass(op, d, 1) = {} /\ CallsInPass(op, d, 0) = {}
                /\ Visits(d, 2) = {} => Pat = {} /\ Ini = {} /\ Coe = {}
                /\ (Visits(d, 2) # {} /\ ~parsed[d].hasInit) =>
                      Once(Pat) /\ Ini = {} /\ Coe = {}
                /\ (Visits(d, 2) # {} /\ parsed[d].hasInit /\ typed) =>
                      /\ Once(Pat) /\ Coe = {} /\ Before(Pat, Ini)
                      /\ IF isNull(ast[d].patTy) THEN Ini = {} ELSE Once(Ini)
                /\ (Visits(d, 2) # {} /\ parsed[d].hasInit /\ ~typed) =>
                      /\ Pat = {} /\ Once(Ini) /\ Before(Ini, Coe)
                      /\ IF parsed[d].initOK THEN Once(Coe) ELSE Coe = {}

\* C12 witness: both passes are done over a non-library unit; the module-scope
\* binding `var g = init` was left alone by the first pass, and the second pass
\* checked its initializer and then coerced the pattern, typing g.
C12_Witness ==
    /\ PassesDone /\ DelayedBinding(6) /\ parsed[6].hasInit
    /\ parsed[6].pattern = Named(7)
    /\ Visits(6, 1) # {} /\ Visits(6, 2) # {}
    /\ Once(CallsInPass("typeCheckExpression", 6, 2))
    /\ Once(CallsInPass("coerceToType", 6, 2))
    /\ ast[6].patTy = IntType

\* C13: no visit aborts: every visit handler returns normally whatever the
\* declaration and whatever fails in the validator, the pattern checker and the
\* expression checker, so the driver always proceeds to the next declaration.
C13_HandlersReturnNormally == ~crashed

----------------------------------------------------------------------------
(* Claims about the Byref and AutoClosure rules, checked under SpecAttrs *)

\* C14 as stated: after validateAttributes returns, for any value declaration, the
\* Byref flag and the AutoClosure flag are both false and each one that was set
\* has been diagnosed.
C14_AsStated ==
    Validated =>
        /\ ~VD1.attrs.Byref
        /\ ~VD1.attrs.AutoClosure
        /\ VD0.attrs.Byref => HasDiag("invalid_decl_attribute_byref", 1)
        /\ VD0.attrs.AutoClosure => HasDiag("invalid_decl_attribute_auto_closure", 1)

\* C14 amended: when validateAttributes does not end on an operator-shape, Infix
\* or Postfix violation, the Byref flag and the AutoClosure flag are both false
\* afterwards and each one that was set has been diagnosed, whatever the other
\* attributes; when it ends on such a violation both flags are left as declared
\* and neither is diagnosed.
C14_ClearedUnlessReturnedEarly ==
    Validated =>
        IF ReturnsEarly(VD0)
        THEN /\ VD1.attrs.Byref = VD0.attrs.Byref
             /\ VD1.attrs.AutoClosure = VD0.attrs.AutoClosure
             /\ ~HasDiag("invalid_decl_attribute_byref", 1)
             /\ ~HasDiag("invalid_decl_attribute_auto_closure", 1)
        ELSE /\ ~VD1.attrs.Byref
             /\ ~VD1.attrs.AutoClosure
             /\ VD0.attrs.Byref <=> HasDiag("invalid_decl_attribute_byref", 1)
             /\ VD0.attrs.AutoClosure <=> HasDiag("invalid_decl_attribute_auto_closure", 1)

\* C14 witness: an operator function carrying Byref, AutoClosure and a legal
\* Infix was validated; both flags were cleared and both diagnosed, Infix kept.
C14_Witness ==
    /\ Validated /\ VD0.kind = "Func" /\ isOperator(VD0) /\ isInfix(VD0.attrs)
    /\ VD0.attrs.Byref /\ VD0.attrs.AutoClosure
    /\ ~VD1.attrs.Byref /\ ~VD1.attrs.AutoClosure /\ isInfix(VD1.attrs)
    /\ HasDiag("invalid_decl_attribute_byref", 1)
    /\ HasDiag("invalid_decl_attribute_auto_closure", 1)

----------------------------------------------------------------------------
(* Claims about the structural diagnostics, checked under Spec *)

\* how often a diagnostic of this kind was emitted at the declaration d
DiagCount(kind, d) ==
    Cardinality({ n \in 1..Len(diags) : diags[n].kind = kind /\ diags[n].decl = d })

\* the declaration sits directly in a nominal type, a protocol or an extension
InTypeContext(d) ==
    parsed[d].ctx > 0 /\ parsed[parsed[d].ctx].kind \in
        {"OneOf", "Struct", "Class", "Protocol", "Extension"}

\* the type expression names a type that is not a protocol, in a visit with
\* pass flag i (a forward reference names a type in the first pass only)
NamesNonProtocol(e, i) == e \in {"A", "Int", "Ref"} \/ (e = "Fwd" /\ i = 1)

\* the type expression names a type that is not a oneof, struct or class
NamesNonNominal(e) == e \in {"P1", "P2", "Int", "Ref"}

\* the pass flag of the first visit of d: 1 in the unit, 0 in a function body
FirstFlag(d) == IF parsed[d].ctx < 0 THEN 0 ELSE 1

NonProtocolsIn(Inherited, i) ==
    Cardinality({ k \in 1..Len(Inherited) : NamesNonProtocol(Inherited[k].expr, i) })

\* the non-protocol types in the inheritance clauses of d and of its generic
\* parameters
NonProtocolInherits(d) ==
    LET G == parsed[d].generics
        Sum[k \in 0..Len(G.params)] ==
            IF k = 0 THEN 0
            ELSE Sum[k - 1] + NonProtocolsIn(G.params[k].inherited, FirstFlag(d))
    IN  (IF parsed[d].kind \in {"TypeAlias", "OneOf", "Struct", "Class", "Protocol",
                                "Extension"}
         THEN NonProtocolsIn(parsed[d].inherited, FirstFlag(d)) ELSE 0)
        + Sum[Len(G.params)]

\* the Conformance requirements of d whose operand names a non-protocol type
NonProtocolRequirements(d) ==
    LET G == parsed[d].generics
    IN  Cardinality({ j \in 1..Len(G.reqs) :
            /\ G.reqs[j].kind = "Conformance"
            /\ NamesNonProtocol(G.reqs[j].protocol.expr, FirstFlag(d)) })

\* how many diagnostics of each structural kind the declaration d calls for
StructuralFailures(kind, d) ==
    CASE kind = "constructor_not_member" ->
            IF parsed[d].kind = "Constructor" /\ ~InTypeContext(d) THEN 1 ELSE 0
      [] kind = "subscript_not_member" ->
            IF parsed[d].kind = "Subscript" /\ ~InTypeContext(d) THEN 1 ELSE 0
      [] kind = "destructor_not_member" ->
            IF /\ parsed[d].kind = "Destructor"
               /\ ~(parsed[d].ctx > 0 /\ parsed[parsed[d].ctx].kind = "Class")
            THEN 1 ELSE 0
      [] kind = "non_nominal_extension" ->
            IF /\ parsed[d].kind = "Extension"
               /\ NamesNonNominal(parsed[d].underlying.expr)
            THEN 1 ELSE 0
      [] kind = "nonprotocol_inherit" -> NonProtocolInherits(d)
      [] kind = "requires_conformance_nonprotocol" -> NonProtocolRequirements(d)

StructuralDiags ==
    {"constructor_not_member", "subscript_not_member", "destructor_not_member",
     "non_nominal_extension", "nonprotocol_inherit", "requires_conformance_nonprotocol"}

\* the declarations whose handler has run, and the run has gone on
Handled(d) == ~crashed /\ (Visits(d, 1) # {} \/ Visits(d, 0) # {})

\* each structural failure is diagnosed once per offence, never more, over the
\* first pass plus the second pass
DiagnosedOnce ==
    \A d \in DOMAIN ast : \A kind \in StructuralDiags :
        /\ DiagCount(kind, d) <= StructuralFailures(kind, d)
        /\ Handled(d) => DiagCount(kind, d) = StructuralFailures(kind, d)

\* after a structural failure the handler has still set the declaration's type
TypeStillComputed ==
    \A d \in DOMAIN ast :
        (/\ Handled(d)
         /\ parsed[d].kind \in {"Constructor", "Subscript", "Destructor"}
         /\ \E kind \in StructuralDiags : StructuralFailures(kind, d) > 0) =>
            ~isNull(ast[d].type)

\* C15: each structural failure (constructor or subscript outside a type context,
\* destructor outside a class, non-nominal extension, non-protocol type in an
\* inheritance clause, non-protocol operand of a Conformance requirement) is
\* diagnosed exactly once over the first pass plus the second pass, and the
\* handler then continues and still computes the declaration's type.
C15_DiagnosedOnceAndTyped == DiagnosedOnce /\ TypeStillComputed

----------------------------------------------------------------------------
(* Claims about the unary address-of operator, checked under SpecAttrs *)

\* a function named & with one argument
UnaryAddressOf(D) == D.kind = "Func" /\ D.name = "&" /\ NumArguments(D.type) = 1

\* C16: for a one-argument operator function named &, validateAttributes emits
\* custom_operator_addressof and nothing else, and leaves every attribute flag
\* and the type of the declaration exactly as they were.
C16_AddressOfLeavesAttributes ==
    (Validated /\ UnaryAddressOf(VD0)) =>
        /\ Len(diags) = 1
        /\ diags[1].kind = "custom_operator_addressof" /\ diags[1].decl = 1
        /\ VD1.attrs = VD0.attrs
        /\ VD1.type = VD0.type

\* C16 witness: a unary & carrying Infix, Postfix, Assignment, Byref and
\* AutoClosure was validated and carries them still.
C16_Witness ==
    /\ Validated /\ UnaryAddressOf(VD0)
    /\ isInfix(VD0.attrs) /\ VD0.attrs.Postfix /\ VD0.attrs.Assignment
    /\ VD0.attrs.Byref /\ VD0.attrs.AutoClosure
    /\ VD1.attrs = VD0.attrs
    /\ HasDiag("custom_operator_addressof", 1)

----------------------------------------------------------------------------
(* Claims about the scans of checkGenericParams, checked under SpecGeneric *)

\* the j-th requirement is a Conformance requirement whose operand names no
\* protocol: no type at all, or a type that is not existential
PoisonedRequirement(j) ==
    GP0.reqs[j].kind = "Conformance" /\ ProtocolsNamed(GP0.reqs[j].protocol.expr) = {}

\* the calls of Builder.addRequirement with the j-th requirement
AddedToBuilder(j) ==
    { n \in 1..Len(trace) : trace[n] = [op |-> "addRequirement", d |-> 1, i |-> j] }

\* C17: a Conformance requirement whose protocol operand fails validation or is
\* not an existential type has its protocol overridden with ErrorType and is
\* never passed to Builder.addRequirement, in neither scan.
C17_PoisonedNeverAdded ==
    GenericVisited =>
        \A j \in 1..Len(GP0.reqs) :
            PoisonedRequirement(j) =>
                /\ isErrorType(GP1.reqs[j].protocol.ty)
                /\ AddedToBuilder(j) = {}

\* the visit the n-th entry of the trace belongs to: the latest visit entry at or
\* before n
VisitOf(n) ==
    LET vs == { m \in 1..n : trace[m].op = "visit" }
    IN  CHOOSE m \in vs : \A k \in vs : k <= m

\* the entries of op made in the visit v
InVisit(op, v) == { n \in 1..Len(trace) : trace[n].op = op /\ VisitOf(n) = v }

BeforeWiring == {"addGenericParameter", "validateProtocol"}
AfterWiring == {"validateSubject", "validateFirst", "validateSecond"}

\* C18: within one checkGenericParams call every parameter is registered with the
\* builder, in declaration order under the indices 0, 1, 2, ..., and the protocol
\* operand of every Conformance requirement is validated, before assignArchetypes
\* is called; the subject of a Conformance requirement and the sides of a
\* SameType requirement are validated only after the archetypes are written.
C18_PhasesInOrder ==
    \A v \in { n \in 1..Len(trace) : trace[n].op = "visit" } :
        LET Reg == InVisit("addGenericParameter", v)
            Pro == InVisit("validateProtocol", v)
            Wire == InVisit("assignArchetypes", v)
        IN  /\ Once(Wire)
            /\ \A op \in BeforeWiring : Before(InVisit(op, v), Wire)
            /\ \A op \in AfterWiring : Before(Wire, InVisit(op, v))
            /\ Cardinality(Reg) = Len(GP0.params)
            /\ \A n \in Reg : trace[n].i = Cardinality({ m \in Reg : m < n })
            /\ { trace[n].i : n \in Pro } =
                   { j \in 1..Len(GP0.reqs) : GP0.reqs[j].kind = "Conformance" }
            /\ \A i \in 1..Len(GP1.params) :
                   /\ GP1.params[i].underlying.k = "Archetype"
                   /\ GP1.params[i].underlying.index = i - 1
                   /\ GP1.params[i].underlying.name = GP0.params[i].name

\* C18 witness: a list of two parameters with a Conformance and a SameType
\* requirement was checked: both parameters registered, the protocol validated,
\* the archetypes assigned, then the subject and both sides validated.
C18_Witness ==
    /\ GenericVisited /\ idx = 1 /\ Len(GP0.params) = 2 /\ Len(GP0.reqs) = 2
    /\ GP0.reqs[1].kind = "Conformance" /\ GP0.reqs[2].kind = "SameType"
    /\ \E a \in InVisit("assignArchetypes", 1) :
          /\ \E n \in InVisit("addGenericParameter", 1) : trace[n].i = 1 /\ n < a
          /\ \E n \in InVisit("validateProtocol", 1) : trace[n].i = 1 /\ n < a
          /\ \E n \in InVisit("validateSubject", 1) : trace[n].i = 1 /\ n > a
          /\ \E n \in InVisit("validateSecond", 1) : trace[n].i = 2 /\ n > a

----------------------------------------------------------------------------
(* Claims about bound variables and the second pass, checked under Spec *)

\* the variables a pattern binds
RECURSIVE BoundVarsOf(_)
BoundVarsOf(P) ==
    CASE P.pk = "Named" -> {P.var}
      [] P.pk \in {"Typed", "Paren"} -> BoundVarsOf(P.sub)
      [] P.pk = "Tuple" -> UNION { BoundVarsOf(P.fields[i]) : i \in 1..Len(P.fields) }
      [] OTHER -> {}

\* the bindings whose pattern binds the variable v
BindingsOf(v) ==
    { b \in DOMAIN parsed :
        parsed[b].kind = "PatternBinding" /\ v \in BoundVarsOf(parsed[b].pattern) }

\* C19: the bound variables of a binding are validated only after the binding's
\* pattern has been type-checked or coerced successfully, in the same or an
\* earlier visit: wherever visitBoundVars has run on a variable, the pattern that
\* binds it has its type.
C19_BoundVarsAfterPatternCheck ==
    \A n \in 1..Len(trace) :
        trace[n].op = "visitBoundVars" =>
            \A b \in BindingsOf(trace[n].d) : ~isNull(ast[b].patTy)

\* the kinds whose handler returns at once in the second pass
FirstPassOnlyKinds ==
    {"Func", "Constructor", "Destructor", "Subscript", "OneOfElement", "Protocol"}

\* the declarations visited with IsSecondPass in the step
VisitedInSecondPass(d) ==
    \E n \in (Len(trace) + 1)..Len(trace') : trace'[n] = [op |-> "visit", d |-> d, i |-> 2]

\* the diagnostics the step emits at the declaration d
EmittedAt(d) == { n \in (Len(diags) + 1)..Len(diags') : diags'[n].decl = d }

\* C20: a visit with IsSecondPass true of a Func, Constructor, Destructor,
\* Subscript, OneOfElement or Protocol declaration changes nothing of the
\* declaration (type slot, attribute flags, generic parameters and their
\* archetypes) and emits nothing; the members of a protocol are left alone too,
\* and the element constructor of a struct keeps its type and argument type.
C20_SecondPassLeavesAlone ==
    [][\A d \in DOMAIN ast :
          (VisitedInSecondPass(d) /\ parsed[d].kind \in FirstPassOnlyKinds) =>
              /\ ast'[d] = ast[d]
              /\ EmittedAt(d) = {}
              /\ tuDecls[idx] = d => diags' = diags /\ ast' = ast /\ nextArch' = nextArch
              /\ parsed[d].kind = "Protocol" =>
                    \A m \in DOMAIN ast : parsed[m].ctx = d =>
                        ast'[m] = ast[m] /\ VisitsIn(trace', m, 2) = {}]_vars

\* C20 witness: the second pass is done; a struct's member of one of these kinds
\* and its element constructor were visited in it, and a function at module
\* scope too, each with the type the first pass gave it.
C20_Witness ==
    /\ PassesDone /\ parsed[1].kind = "Struct"
    /\ parsed[4].kind = "Constructor" /\ Visits(4, 2) # {} /\ ~isNull(ast[4].type)
    /\ Visits(5, 2) # {}
    /\ ast[5].type = FunctionType(TupleType(ExpectedElts(1)), DeclaredTypeOf(1))
    /\ \E n \in 1..Len(diags) : diags[n].decl = 4

----------------------------------------------------------------------------
(* Claims about the associated types of a protocol, checked under Spec *)

\* the type-alias members of the protocol p
AssociatedTypes(p) ==
    { m \in DOMAIN parsed : parsed[m].kind = "TypeAlias" /\ parsed[m].ctx = p }

\* the handler of the protocol p has run its two loops
ProtocolChecked(p) ==
    parsed[p].kind = "Protocol" /\ (Visits(p, 0) \cup Visits(p, 1)) # {}

\* the archetypes the declarations hold: of associated types and of generic parameters
ArchetypesHeld ==
    { [holder |-> <<m, 0>>, ty |-> ast[m].underlying.ty] :
        m \in { a \in DOMAIN ast : ast[a].underlying.ty.k = "Archetype" } }
    \cup UNION { { [holder |-> <<d, i>>, ty |-> ast[d].generics.params[i].underlying] :
                     i \in { j \in 1..Len(ast[d].generics.params) :
                               ast[d].generics.params[j].underlying.k = "Archetype" } } :
                 d \in DOMAIN ast }

\* the archetypes held that were created before the call recorded at n
CreatedBefore(n) ==
    { h \in ArchetypesHeld :
        \E k \in 1..(n - 1) :
            /\ trace[k].d = h.holder[1]
            /\ trace[k].op = IF h.holder[2] = 0 THEN "getNewArchetype"
                             ELSE "assignArchetypes" }

\* the archetype of the associated type m, created by the call recorded at n, is
\* none of the archetypes created before, and no other declaration holds it
FreshAt(m, n) ==
    /\ \A h \in CreatedBefore(n) : h.ty.id # ast[m].underlying.ty.id
    /\ \A h \in ArchetypesHeld :
          h.holder # <<m, 0>> => h.ty.id # ast[m].underlying.ty.id

\* the types the inheritance clause of m declares, as checkInherited leaves them
InheritedTypesOf(m) ==
    [i \in 1..Len(parsed[m].inherited) |->
        IF isNull(Resolve(parsed[m].inherited[i].expr, FALSE)) THEN ErrorType
        ELSE Resolve(parsed[m].inherited[i].expr, FALSE)]

\* C21: when a protocol is checked, every type-alias member receives a freshly
\* created archetype, distinct from every archetype created before, whose
\* conformance set is exactly the alias's declared inherited types; the archetype
\* has index 0 if and only if the alias is named This and no index otherwise; and
\* every alias has its archetype before any member of the protocol is visited.
C21_AssociatedTypeArchetypes ==
    \A p \in DOMAIN ast :
        ProtocolChecked(p) =>
            \A m \in AssociatedTypes(p) :
                /\ ast[m].underlying.ty.k = "Archetype"
                /\ Once(CallsIn(trace, "getNewArchetype", m))
                /\ \A n \in CallsIn(trace, "getNewArchetype", m) : FreshAt(m, n)
                /\ ast[m].underlying.ty.inheritedTypes = InheritedTypesOf(m)
                /\ ast[m].underlying.ty.index = (IF parsed[m].name = "This" THEN 0 ELSE -1)
                /\ \A v \in DOMAIN ast :
                      parsed[v].ctx = p =>
                          Before(CallsIn(trace, "getNewArchetype", m),
                                 CallsIn(trace, "visit", v))

\* C21 witness: a protocol at module scope with three associated types, one of
\* them named This, and a protocol local to a function body were checked; the
\* four archetypes are distinct, the one of This alone has index 0 in the first
\* protocol, and the last carries the two types its alias inherits.
C21_Witness ==
    /\ pass = "done" /\ ~crashed
    /\ ProtocolChecked(1) /\ ProtocolChecked(8)
    /\ AssociatedTypes(1) = {2, 3, 4} /\ AssociatedTypes(8) = {5}
    /\ parsed[2].name = "This"
    /\ Cardinality({ ast[m].underlying.ty.id : m \in {2, 3, 4, 5} }) = 4
    /\ ast[2].underlying.ty.index = 0 /\ ast[3].underlying.ty.index = -1
    /\ ast[5].underlying.ty.index = 0
    /\ Len(ast[4].underlying.ty.inheritedTypes) = 2
    /\ Visits(2, 1) # {} /\ Visits(5, 0) # {}

----------------------------------------------------------------------------
(* Claims about the order of the inheritance check and the conformance check, *)
(* checked under Spec                                                         *)

ConformingKinds == {"TypeAlias", "OneOf", "Struct", "Class", "Extension"}

\* the entries of the inheritance clause of d that checkInherited has gone
\* through before the call recorded at n
InheritedCheckedBefore(d, n) ==
    Cardinality({ k \in 1..(n - 1) : trace[k].op = "validateInherited" /\ trace[k].d = d })

\* C22: with the first pass of a declaration at module scope before its second
\* pass, checkExplicitConformance never reads an entry of an inheritance clause
\* that checkInherited has not gone through: for TypeAlias (inside a protocol
\* too), OneOf, Struct, Class and Extension declarations, at module scope,
\* nested or local, every inherited TypeLoc carries a type, valid or the error
\* type, before the conformance check looks at it.
C22_InheritedCheckedBeforeConformance ==
    \A n \in 1..Len(trace) :
        trace[n].op = "checkExplicitConformance" =>
            /\ parsed[trace[n].d].kind \in ConformingKinds
            /\ InheritedCheckedBefore(trace[n].d, n) >= Len(parsed[trace[n].d].inherited)
            /\ \A i \in 1..Len(ast[trace[n].d].inherited) :
                  ~isNull(ast[trace[n].d].inherited[i].ty)

\* C22 witness: the conformance check ran in the second pass for an extension at
\* module scope, for the class nested in it and for the alias, with two inherited
\* types, nested in that class, and with neither flag for the alias inside a
\* protocol local to a function body; each clause had been checked before.
C22_Witness ==
    /\ pass = "done" /\ ~crashed
    /\ parsed[1].kind = "Extension" /\ parsed[3].kind = "Class"
    /\ parsed[4].kind = "TypeAlias" /\ parsed[8].kind = "Protocol"
    /\ \A d \in {1, 3, 4} : CallsInPass("checkExplicitConformance", d, 2) # {}
    /\ CallsInPass("checkExplicitConformance", 5, 0) # {}
    /\ \A d \in {1, 3, 4, 5} :
          \A n \in CallsIn(trace, "checkExplicitConformance", d) :
              InheritedCheckedBefore(d, n) = Len(parsed[d].inherited)
    /\ Len(parsed[4].inherited) = 2

----------------------------------------------------------------------------
(* Claims about the initializer of a pattern binding, checked under Spec *)

\* the calls of typeCheckExpression on the initializer of the binding d
InitChecks(d) == CallsIn(trace, "typeCheckExpression", d)

\* C23: the initializer of a pattern binding is passed to typeCheckExpression at
\* most once over the first pass and the second pass, in library and in
\* non-library translation units, at module scope and nested; never during a
\* first-pass visit; and the binding's initializer is replaced by the checked
\* expression only when that check succeeded.
C23_InitializerCheckedOnce ==
    \A d \in DOMAIN ast :
        parsed[d].kind = "PatternBinding" =>
            /\ Cardinality(InitChecks(d)) <= 1
            /\ CallsInPass("typeCheckExpression", d, 1) = {}
            /\ InitChecks(d) # {} => parsed[d].hasInit
            /\ ast[d].initChecked => (InitChecks(d) # {} /\ parsed[d].initOK)
            /\ ~ast[d].initChecked => ast[d].initTy = parsed[d].initTy

\* C23 witness: in a non-library unit, a binding nested two levels deep was
\* visited in both passes; its initializer was checked once, in the second
\* pass, and replaced.
C23_Witness ==
    /\ pass = "done" /\ ~crashed /\ tuKind = "Main"
    /\ parsed[4].kind = "PatternBinding" /\ parsed[4].ctx = 3 /\ parsed[4].hasInit
    /\ Visits(4, 1) # {} /\ Visits(4, 2) # {}
    /\ Once(InitChecks(4)) /\ Once(CallsInPass("typeCheckExpression", 4, 2))
    /\ ast[4].initChecked

====
